---------------------------- MODULE Spec2Model ----------------------------
(***************************************************************************)
(* Multizone heater (custom_components/multizone_heater): the demand       *)
(* aggregation of core.py, the control loop of climate.py.                 *)
(*                                                                         *)
(* Units.  A temperature is an integer number of hundredths of a degree    *)
(* (2050 is 20.50 C).  The compensation factor is an integer number of     *)
(* hundredths (66 is 0.66), the holding slider an integer percentage.      *)
(* A value the code holds before rounding is an exact fraction             *)
(* [num, den] of hundredths of a degree.  round(x, 1) of Python is         *)
(* Round1: nearest tenth of a degree, a tie going to the even tenth, which *)
(* is what round() gives on the ties a binary float holds exactly (20.25,  *)
(* 20.75); the input sets below produce no other tie.                      *)
(***************************************************************************)
EXTENDS Integers, Sequences, FiniteSets, TLC

\* Python's None, for an optional float (core.py ZoneData.current_temp).
None == -1

(***************************************************************************)
(* Arithmetic helpers                                                      *)
(***************************************************************************)
\* max(a, b) and min(a, b) of Python on two numbers.
Max2(a, b) == IF a >= b THEN a ELSE b
Min2(a, b) == IF a <= b THEN a ELSE b

\* min(), max(), sum() of Python over a non-empty list of numbers.
RECURSIVE SeqMin(_)
SeqMin(s) == IF Len(s) = 1 THEN s[1] ELSE Min2(s[1], SeqMin(Tail(s)))

RECURSIVE SeqMax(_)
SeqMax(s) == IF Len(s) = 1 THEN s[1] ELSE Max2(s[1], SeqMax(Tail(s)))

RECURSIVE SeqSum(_)
SeqSum(s) == IF s = <<>> THEN 0 ELSE s[1] + SeqSum(Tail(s))

\* The integer nearest to p/q (q > 0, p >= 0), a tie going to the even one.
RoundHalfEven(p, q) ==
    LET f == p \div q
        r == p % q
    IN  IF 2 * r < q THEN f
        ELSE IF 2 * r > q THEN f + 1
        ELSE IF f % 2 = 0 THEN f ELSE f + 1

\* A mutant of Round1: truncation to the tenth below instead of rounding.
Round1Trunc(num, den) == 10 * (num \div (den * 10))

\* round(x, 1): x = num/den hundredths of a degree, the result in hundredths.
Round1(num, den) == 10 * RoundHalfEven(num, den * 10)

\* max(lo, min(hi, x)) (core.py line 128, climate.py line 797).
Clamp(lo, hi, x) == Max2(lo, Min2(hi, x))


(***************************************************************************)
(* core.py: the pure aggregation exposed to the status layer               *)
(***************************************************************************)
\* ZoneData (core.py lines 11-20).
ZoneData(name, current_temp, target_temp, target_offset, target_offset_closing, is_valve_open) ==
    [name |-> name, current_temp |-> current_temp, target_temp |-> target_temp,
     target_offset |-> target_offset,
     target_offset_closing |-> target_offset_closing,
     is_valve_open |-> is_valve_open]

\* A mutant of SatisfactionBounds: the Cool branch keeps the Heat offsets, with
\* the closing offset subtracted on the upper side.
SatisfactionBoundsSwapped(hvac_mode, target, offset, offset_closing) ==
    IF hvac_mode = "heat"
    THEN <<target - offset, target + offset_closing>>
    ELSE <<target + offset_closing, target - offset>>

\* <<lower_bound, upper_bound>> (core.py lines 72-77 and 153-160,
\* climate.py _get_zone_satisfaction_bounds).
SatisfactionBounds(hvac_mode, target, offset, offset_closing) ==
    IF hvac_mode = "heat"
    THEN <<target - offset, target + offset_closing>>
    ELSE <<target - offset_closing, target + offset>>

\* needs_mode_action of compute_main_target (core.py lines 82-92).
CoreNeedsAction(hvac_mode, current_temp, lower_bound, upper_bound) ==
    IF hvac_mode = "heat"
    THEN current_temp < lower_bound
    ELSE current_temp > upper_bound

\* A mutant of CoreZoneDesired: the compensation term is left out.
CoreZoneDesiredNoComp(hvac_mode, factor, target, current_temp) == 100 * target

\* zone_desired_main, as a number of 1/100 of a hundredth of a degree
\* (core.py lines 86-87 and 94-95).
CoreZoneDesired(hvac_mode, factor, target, current_temp) ==
    IF hvac_mode = "heat"
    THEN 100 * target + factor * (target - current_temp)
    ELSE 100 * target - factor * (current_temp - target)

\* The three lists the loop of compute_main_target builds (core.py lines 61-97).
RECURSIVE CoreLoop(_, _, _, _, _)
CoreLoop(zones, i, hvac_mode, factor, acc) ==
    IF i > Len(zones) THEN acc
    ELSE LET zone == zones[i]
             b == SatisfactionBounds(hvac_mode, zone.target_temp,
                                     zone.target_offset,
                                     zone.target_offset_closing)
         IN  IF zone.current_temp = None
             THEN CoreLoop(zones, i + 1, hvac_mode, factor, acc)
             ELSE IF CoreNeedsAction(hvac_mode, zone.current_temp, b[1], b[2])
             THEN CoreLoop(zones, i + 1, hvac_mode, factor,
                    [zone_targets |-> Append(acc.zone_targets, zone.target_temp),
                     per_zone_desired_main |->
                        Append(acc.per_zone_desired_main,
                               CoreZoneDesired(hvac_mode, factor,
                                               zone.target_temp,
                                               zone.current_temp)),
                     zones_needing_action |->
                        Append(acc.zones_needing_action, zone.name)])
             ELSE CoreLoop(zones, i + 1, hvac_mode, factor,
                    [acc EXCEPT !.zone_targets = Append(@, zone.target_temp)])

EmptyLists ==
    [zone_targets |-> <<>>, per_zone_desired_main |-> <<>>,
     zones_needing_action |-> <<>>]

\* A mutant of HoldingBlend: the upper half starts from the minimum, the base
\* of the lower half's formula, instead of the average.
HoldingBlendWrongBase(zone_targets, weight) ==
    LET n == Len(zone_targets)
        min_target == SeqMin(zone_targets)
        max_target == SeqMax(zone_targets)
        total == SeqSum(zone_targets)
    IN  IF weight <= 50
        THEN [num |-> 50 * n * min_target + (total - n * min_target) * weight,
              den |-> 50 * n]
        ELSE [num |-> 50 * n * min_target
                        + (n * max_target - total) * (weight - 50),
              den |-> 50 * n]

\* A mutant of HoldingBlend: the lower half interpolates from the maximum.
HoldingBlendFromMax(zone_targets, weight) ==
    LET n == Len(zone_targets)
        max_target == SeqMax(zone_targets)
        total == SeqSum(zone_targets)
    IN  IF weight <= 50
        THEN [num |-> 50 * n * max_target + (total - n * max_target) * weight,
              den |-> 50 * n]
        ELSE [num |-> 50 * total + (n * max_target - total) * (weight - 50),
              den |-> 50 * n]

\* The holding interpolation (core.py lines 112-122, climate.py lines 781-791):
\* with avg = total/n and ratio = weight/50 or (weight-50)/50, the value
\* min + (avg - min) * ratio or avg + (max - avg) * ratio over the common
\* denominator 50 * n.
HoldingBlend(zone_targets, weight) ==
    LET n == Len(zone_targets)
        min_target == SeqMin(zone_targets)
        max_target == SeqMax(zone_targets)
        total == SeqSum(zone_targets)
    IN  IF weight <= 50
        THEN [num |-> 50 * n * min_target + (total - n * min_target) * weight,
              den |-> 50 * n]
        ELSE [num |-> 50 * total + (n * max_target - total) * (weight - 50),
              den |-> 50 * n]

\* A mutant of SelectDesired: the minimum in Heat, the maximum in Cool.
SelectDesiredInverted(hvac_mode, per_zone_desired_main) ==
    IF hvac_mode = "heat"
    THEN SeqMin(per_zone_desired_main)
    ELSE SeqMax(per_zone_desired_main)

\* max() in Heat, min() in Cool (core.py lines 105-108, climate.py 774-777).
SelectDesired(hvac_mode, per_zone_desired_main) ==
    IF hvac_mode = "heat"
    THEN SeqMax(per_zone_desired_main)
    ELSE SeqMin(per_zone_desired_main)

\* A mutant of DesiredBeforeRounding: with no zone reporting, the default
\* target 20.0 is held.
DesiredBeforeRoundingDefault(lists, hvac_mode, weight) ==
    IF lists.zones_needing_action # <<>> /\ lists.per_zone_desired_main # <<>>
    THEN [num |-> SelectDesired(hvac_mode, lists.per_zone_desired_main),
          den |-> 100, is_holding_mode |-> FALSE]
    ELSE IF lists.zone_targets # <<>>
    THEN [num |-> HoldingBlend(lists.zone_targets, weight).num,
          den |-> HoldingBlend(lists.zone_targets, weight).den,
          is_holding_mode |-> TRUE]
    ELSE [num |-> 2000, den |-> 1, is_holding_mode |-> TRUE]

\* desired_main and is_holding_mode before the rounding (core.py lines 99-123,
\* climate.py lines 768-792); num = None stands for desired_main = None.
DesiredBeforeRounding(lists, hvac_mode, weight) ==
    IF lists.zones_needing_action # <<>> /\ lists.per_zone_desired_main # <<>>
    THEN [num |-> SelectDesired(hvac_mode, lists.per_zone_desired_main),
          den |-> 100, is_holding_mode |-> FALSE]
    ELSE IF lists.zone_targets # <<>>
    THEN [num |-> HoldingBlend(lists.zone_targets, weight).num,
          den |-> HoldingBlend(lists.zone_targets, weight).den,
          is_holding_mode |-> TRUE]
    ELSE [num |-> None, den |-> 1, is_holding_mode |-> FALSE]

\* A mutant of RoundAndClamp: the clamp is left out.
RoundNoClamp(raw, min_temp, max_temp) ==
    IF raw.num = None THEN None ELSE Round1(raw.num, raw.den)

\* A mutant of RoundAndClamp: the rounding is left out (truncation to the
\* hundredth), the clamp kept.
ClampNoRound(raw, min_temp, max_temp) ==
    IF raw.num = None THEN None
    ELSE Clamp(min_temp, max_temp, raw.num \div raw.den)

\* Round and clamp to the configured range (core.py lines 125-128,
\* climate.py lines 794-797).
RoundAndClamp(raw, min_temp, max_temp) ==
    IF raw.num = None THEN None
    ELSE Clamp(min_temp, max_temp, Round1(raw.num, raw.den))

\* compute_main_target before its last step (core.py lines 61-123).
CoreBeforeRounding(zones, hvac_mode, compensation_factor, all_satisfied_mode) ==
    DesiredBeforeRounding(
        CoreLoop(zones, 1, hvac_mode, compensation_factor, EmptyLists),
        hvac_mode, all_satisfied_mode)

\* compute_main_target (core.py lines 23-130): (desired_main, is_holding_mode).
compute_main_target(zones, hvac_mode, compensation_factor, all_satisfied_mode, min_temp, max_temp) ==
    LET raw == CoreBeforeRounding(zones, hvac_mode, compensation_factor,
                                  all_satisfied_mode)
    IN  [desired_main |-> RoundAndClamp(raw, min_temp, max_temp),
         is_holding_mode |-> raw.is_holding_mode]

\* round(x, 1) of a float already held in hundredths.
RoundTenth(x) == Round1(x, 1)

\* compute_zone_targets for one zone (core.py lines 151-166).
ZoneTargetInfo(zone, hvac_mode) ==
    LET b == SatisfactionBounds(hvac_mode, zone.target_temp, zone.target_offset,
                                zone.target_offset_closing)
    IN  [target |-> RoundTenth(zone.target_temp),
         lower_bound |-> RoundTenth(b[1]),
         upper_bound |-> RoundTenth(b[2])]

\* compute_zone_targets (core.py lines 133-168): one entry per list position
\* (the code keys the result by zone name; the names of a zone list differ).
compute_zone_targets(zones, hvac_mode) ==
    [i \in 1..Len(zones) |-> ZoneTargetInfo(zones[i], hvac_mode)]


(***************************************************************************)
(* climate.py: the control loop's own aggregation                          *)
(***************************************************************************)
\* needs_action of _calculate_desired_main_target (climate.py line 752).
CalcNeedsAction(hvac_mode, current_temp, lower_bound, upper_bound) ==
    current_temp < lower_bound \/ current_temp > upper_bound

\* zone_desired_main of _calculate_desired_main_target, in 1/100 of a
\* hundredth of a degree (climate.py lines 743-744).
CalcZoneDesired(factor, target, current_temp) ==
    100 * target + factor * (target - current_temp)

\* A mutant of CalcLoop: the target of a zone without a reading still enters
\* zone_targets.
RECURSIVE CalcLoopKeepsTarget(_, _, _, _, _)
CalcLoopKeepsTarget(zones, i, hvac_mode, factor, acc) ==
    IF i > Len(zones) THEN acc
    ELSE LET zone == zones[i]
             b == SatisfactionBounds(hvac_mode, zone.target_temp,
                                     zone.target_offset,
                                     zone.target_offset_closing)
         IN  IF zone.current_temp = None
             THEN CalcLoopKeepsTarget(zones, i + 1, hvac_mode, factor,
                    [acc EXCEPT !.zone_targets = Append(@, zone.target_temp)])
             ELSE IF CalcNeedsAction(hvac_mode, zone.current_temp, b[1], b[2])
             THEN CalcLoopKeepsTarget(zones, i + 1, hvac_mode, factor,
                    [zone_targets |-> Append(acc.zone_targets, zone.target_temp),
                     per_zone_desired_main |->
                        Append(acc.per_zone_desired_main,
                               CalcZoneDesired(factor, zone.target_temp,
                                               zone.current_temp)),
                     zones_needing_action |->
                        Append(acc.zones_needing_action, zone.name)])
             ELSE CalcLoopKeepsTarget(zones, i + 1, hvac_mode, factor,
                    [acc EXCEPT !.zone_targets = Append(@, zone.target_temp)])

\* The three lists the loop of _calculate_desired_main_target builds
\* (climate.py lines 715-766).  A zone is the view of one configured zone:
\* name is its valve entity, current_temp what _get_zone_temperature returns,
\* target_temp what _get_zone_target_temperature returns.  Every configured
\* zone has a valve.
RECURSIVE CalcLoop(_, _, _, _, _)
CalcLoop(zones, i, hvac_mode, factor, acc) ==
    IF i > Len(zones) THEN acc
    ELSE LET zone == zones[i]
             b == SatisfactionBounds(hvac_mode, zone.target_temp,
                                     zone.target_offset,
                                     zone.target_offset_closing)
         IN  IF zone.current_temp = None
             THEN CalcLoop(zones, i + 1, hvac_mode, factor, acc)
             ELSE IF CalcNeedsAction(hvac_mode, zone.current_temp, b[1], b[2])
             THEN CalcLoop(zones, i + 1, hvac_mode, factor,
                    [zone_targets |-> Append(acc.zone_targets, zone.target_temp),
                     per_zone_desired_main |->
                        Append(acc.per_zone_desired_main,
                               CalcZoneDesired(factor, zone.target_temp,
                                               zone.current_temp)),
                     zones_needing_action |->
                        Append(acc.zones_needing_action, zone.name)])
             ELSE CalcLoop(zones, i + 1, hvac_mode, factor,
                    [acc EXCEPT !.zone_targets = Append(@, zone.target_temp)])

\* _calculate_desired_main_target (climate.py lines 706-807):
\* (desired_main, is_holding_mode).
calculate_desired_main_target(zones, hvac_mode, compensation_factor, all_satisfied_mode, min_temp, max_temp) ==
    LET raw == DesiredBeforeRounding(
                   CalcLoop(zones, 1, hvac_mode, compensation_factor, EmptyLists),
                   hvac_mode, all_satisfied_mode)
    IN  [desired_main |-> RoundAndClamp(raw, min_temp, max_temp),
         is_holding_mode |-> raw.is_holding_mode]

\* _get_zone_status (climate.py lines 678-704).
get_zone_status(hvac_mode, current_temp, lower_bound, upper_bound) ==
    IF hvac_mode = "heat"
    THEN IF current_temp < lower_bound THEN "underheated"
         ELSE IF current_temp > upper_bound THEN "overheated"
         ELSE "satisfied"
    ELSE IF current_temp > upper_bound THEN "overheated"
         ELSE IF current_temp < lower_bound THEN "undercooled"
         ELSE "satisfied"


(***************************************************************************)
(* State                                                                   *)
(***************************************************************************)
VARIABLES
    \* The aggregation applied to a drawn zone list (specification SpecAgg).
    aggIn,      \* the arguments: zones, hvac_mode, compensation_factor,
                \* all_satisfied_mode
    aggOut,     \* what the two aggregations and compute_zone_targets returned
    aggPrev,    \* the slider value and result of the call before a slider move
    \* The installation, fixed at construction.
    self_zones,             \* _zones: the configured zones, in order
    main_climate_entity,    \* whether _main_climate_entity is configured
    \* The controller's fields.
    hvac_mode,              \* _hvac_mode: "off", "heat" or "cool"
    last_main_target,       \* _last_main_target (None: nothing sent yet)
    valve_no_reopen_until,      \* _valve_no_reopen_until: per zone NoEntry, or
                                \* the timestamp minus the current time (0 once
                                \* the timestamp has passed)
    delayed_valve_close_task,   \* _delayed_valve_close_task: NoTask, or the
                                \* valves to close and the sleep time left
    delayed_close_tasks,    \* the tasks running _async_delayed_valve_close
                            \* that have not finished
    zone_target_change_valve_timer, \* _zone_target_change_valve_timer: NoTimer
                                    \* or the task the field refers to
    zone_target_change_main_timer,  \* _zone_target_change_main_timer, likewise
    valve_timers,   \* the tasks running _async_delayed_valve_control, by the
                    \* number of the target edit that created them
    main_timers,    \* the tasks running _async_delayed_main_climate_update
    removed,        \* whether async_will_remove_from_hass has returned
    update_lock,    \* _update_lock, an asyncio.Lock: whether it is held and
                    \* the operations waiting for it, first come first
    ops,            \* the tasks running a valve operation: its kind, where
                    \* it is, and what it has planned and still has to issue
    main_updates,   \* the tasks running _async_update_main_climate that are
                    \* suspended in their service call, and what they send
    \* What the controller reads from the host (hass.states).
    zoneTemp,   \* per zone, what _get_zone_temperature returns (None: absent)
    zoneTarget, \* per zone, what _get_zone_target_temperature returns
    valveOn,    \* per zone, whether its valve entity reports STATE_ON
    mainClimate,    \* the main climate entity's state and target attribute
    \* History, read by the properties only.
    act,        \* the operation of the last step and what it issued
    closeHold,  \* per zone, the time left of the transition delay that began
                \* when a control pass last deferred the zone's close
    reopenHold, \* per zone, the time left of the transition delay that began
                \* when a control pass last recorded an early close
    burst       \* the target edits of the current burst: the tasks of its
                \* first and last edit, the time since the last one, and the
                \* control passes and setpoint updates its tasks have run

aggVars == <<aggIn, aggOut, aggPrev>>

configVars == <<self_zones, main_climate_entity>>

controllerVars ==
    <<hvac_mode, last_main_target, valve_no_reopen_until,
      delayed_valve_close_task, delayed_close_tasks>>

hostVars == <<zoneTemp, zoneTarget, valveOn, mainClimate>>

historyVars == <<act, closeHold, reopenHold>>

timerVars ==
    <<zone_target_change_valve_timer, zone_target_change_main_timer,
      valve_timers, main_timers, removed, burst>>

gateVars == <<update_lock, ops>>

taskVars == <<timerVars, gateVars, main_updates>>

vars ==
    <<aggVars, configVars, controllerVars, hostVars, historyVars, taskVars>>

(***************************************************************************)
(* Configuration of the controller instance                                *)
(***************************************************************************)
\* The zones an installation may configure.  Every zone has a valve switch and
\* no virtual switch, so a zone's name stands for its valve entity too, and a
\* zone climate entity that gives the zone's temperature and target: the
\* controller's own _target_temperature, the target of a zone without one
\* (climate.py line 1145), is then read by no operation and is left out.
Zones == {"z1", "z2", "z3"}

\* CONF_TARGET_TEMP_OFFSET and CONF_TARGET_TEMP_OFFSET_CLOSING of each zone:
\* z1 keeps the defaults 0.5 and 0.0, z2 and z3 close 0.5 above the target.
target_temp_offset == [z \in Zones |-> 50]
target_temp_offset_closing == [z \in Zones |-> IF z = "z1" THEN 0 ELSE 50]

\* _fallback_zone_names.
fallback_zone_names == {"z2"}

\* _min_valves_open (DEFAULT_MIN_VALVES_OPEN).
min_valves_open == 1

\* _compensation_factor (DEFAULT_COMPENSATION_FACTOR 0.66), _all_satisfied_mode
\* (DEFAULT_ALL_SATISFIED_MODE), _physical_close_anticipation
\* (DEFAULT_PHYSICAL_CLOSE_ANTICIPATION 0.6), _main_change_threshold
\* (DEFAULT_MAIN_CHANGE_THRESHOLD 0.1).
compensation_factor == 66
all_satisfied_mode == 50
physical_close_anticipation == 60
main_change_threshold == 10

\* _valve_transition_delay, in clock ticks.  One tick of the model's clock is
\* one reconciliation interval (5 s); the configuration flow accepts 5 .. 300 s.
valve_transition_delay == 1

\* DEFAULT_ZONE_TARGET_CHANGE_DELAY (const.py line 38), the quiet period of
\* the debounce, in clock ticks: 5 s, one reconciliation interval.
zone_target_change_delay == 1

\* main_min_temp and main_max_temp of the instance, hundredths of a degree:
\* the range 19.0 .. 22.0 (the configuration flow accepts 5.0 .. 25.0 and
\* 20.0 .. 40.0 in steps of 0.5).
main_min_temp == 1900
main_max_temp == 2200

(***************************************************************************)
(* SpecAgg: the aggregation as a function of its arguments                 *)
(***************************************************************************)
\* The longest zone list drawn.
MaxZones == 2

\* The values a drawn zone takes: no reading or a temperature, a target, the
\* opening and closing offsets (steps of 0.1 in the configuration flow).
AggTemps == {None, 1900, 2050, 2200}
AggTargets == {2000, 2100}
AggOffsets == {<<50, 0>>, <<0, 100>>}
AggFactors == {50, 66}
AggWeights == {0, 25, 50, 75, 100}
AggNames == <<"zone1", "zone2", "zone3", "zone4">>

AggZoneLists ==
    UNION {[1..n -> AggTemps \X AggTargets \X AggOffsets] : n \in 1..MaxZones}

\* The zone list of a drawn tuple list.
AggZones(l) ==
    [i \in 1..Len(l) |->
        ZoneData(AggNames[i], l[i][1], l[i][2], l[i][3][1], l[i][3][2], FALSE)]

\* What one call of each aggregation returns on the arguments a.
AggApply(a) ==
    [done |-> TRUE,
     core |-> compute_main_target(a.zones, a.hvac_mode, a.compensation_factor,
                                  a.all_satisfied_mode, main_min_temp,
                                  main_max_temp),
     core_raw |-> CoreBeforeRounding(a.zones, a.hvac_mode,
                                     a.compensation_factor,
                                     a.all_satisfied_mode),
     core_needing |-> CoreLoop(a.zones, 1, a.hvac_mode, a.compensation_factor,
                               EmptyLists).zones_needing_action,
     calc |-> calculate_desired_main_target(a.zones, a.hvac_mode,
                                            a.compensation_factor,
                                            a.all_satisfied_mode, main_min_temp,
                                            main_max_temp),
     calc_needing |-> CalcLoop(a.zones, 1, a.hvac_mode, a.compensation_factor,
                               EmptyLists).zones_needing_action,
     zone_targets |-> compute_zone_targets(a.zones, a.hvac_mode),
     bounds |-> [i \in 1..Len(a.zones) |->
                    SatisfactionBounds(a.hvac_mode, a.zones[i].target_temp,
                                       a.zones[i].target_offset,
                                       a.zones[i].target_offset_closing)]]

NotCalled == [done |-> FALSE]
NoPrev == [all_satisfied_mode |-> None]

\* The controller's variables, which the aggregation's specification leaves
\* alone: the state right after __init__ (climate.py lines 176-216) of an
\* installation whose zones report nothing yet.
NoEntry == None
NoTask == [valves |-> {}, left |-> None]

\* A mutant of CancelPending: the task the field refers to is left to run.
CancelNothing(tasks, task) == tasks

\* The cancel a control pass opens its scheduling with (climate.py lines
\* 1005-1011): the task the field refers to gets CancelledError at its sleep
\* and ends without a service call (lines 1204-1210), before the pass resumes
\* from its first gather.
CancelPending(tasks, task) == tasks \ {task}

\* asyncio.create_task of a deferred close (climate.py lines 1053-1056).
Scheduled(tasks, task) == IF task = NoTask THEN tasks ELSE tasks \cup {task}
NoUpdate ==
    [ran |-> FALSE, candidate |-> None, is_holding_mode |-> FALSE,
     near_readback |-> FALSE, far_from_cached |-> FALSE, send |-> FALSE]
\* The most valve operations started and not yet finished.
MaxOps == 2
OpIds == 1..MaxOps

\* A task slot that runs no valve operation.
NoOp ==
    [kind |-> "none", pc |-> "idle", pass |-> FALSE, planned |-> <<>>,
     pending |-> <<>>, deferred |-> {}, failed |-> {}]

\* A task slot that runs no setpoint update.
NoSend == [pc |-> "idle", candidate |-> None]

\* The lock as __init__ creates it (climate.py line 216).
Unlocked == [locked |-> FALSE, waiters |-> <<>>]

\* What an operation that left the gate had planned when it entered, and the
\* valves whose actuator call raised.
NoGate ==
    [exited |-> FALSE, planned |-> <<>>, planned_deferred |-> {},
     failed |-> {}]

\* What a control pass saw and decided besides its commands: the zones a
\* second evaluation of the decisions on the same readings decides open, the
\* zones that need the mode's action, those of them whose valve is closed with
\* a suppression entry whose time has not passed, the valves the floor
\* promoted, valves_to_turn_on and valves_to_turn_off after the floor, the
\* valves it found open, and the zones whose suppression entry it wrote.
NothingSeen ==
    [decided_again |-> {}, needing |-> {}, suppressed |-> {}, promoted |-> {},
     valves_to_turn_on |-> {}, valves_to_turn_off |-> {},
     open_before |-> {}, early_closed |-> {}, superseded |-> {}]
Idle ==
    [op |-> "none", pass |-> FALSE, batches |-> <<>>, deferred |-> {},
     at_floor |-> FALSE, decided_open |-> {}, in_window |-> {}, held |-> {},
     seen |-> NothingSeen, update |-> NoUpdate, sent |-> <<>>,
     gate |-> NoGate]

\* The most zone target edits of one run, each of which creates a pair of
\* debounce tasks.
MaxEdits == 3
TimerIds == 1..MaxEdits

\* A field that refers to no task (climate.py lines 181-182).
NoTimer == 0

\* A debounce task: not created yet, in its sleep with the time left, with a
\* cancellation requested that it has not yet been resumed with, or done.
Timer(status, left) == [status |-> status, left |-> left]
Unborn == Timer("unborn", None)
NoBurst ==
    [first |-> NoTimer, last |-> NoTimer, since |-> zone_target_change_delay,
     valve_runs |-> 0, main_runs |-> 0, early |-> FALSE]

\* The zone climate entities' targets.
ZoneClimateTargets == [z \in Zones |-> IF z = "z3" THEN 2100 ELSE 2000]

\* The main climate entity as the host shows it.
MainClimateState(state, temperature) ==
    [state |-> state, temperature |-> temperature]

ControllerCreated ==
    /\ hvac_mode = "off"
    /\ last_main_target = None
    /\ valve_no_reopen_until = [z \in Zones |-> NoEntry]
    /\ delayed_valve_close_task = NoTask
    /\ delayed_close_tasks = {}
    /\ main_updates = [id \in OpIds |-> NoSend]
    /\ zoneTarget = ZoneClimateTargets
    /\ act = Idle
    /\ closeHold = [z \in Zones |-> 0]
    /\ reopenHold = [z \in Zones |-> 0]
    /\ zone_target_change_valve_timer = NoTimer
    /\ zone_target_change_main_timer = NoTimer
    /\ valve_timers = [id \in TimerIds |-> Unborn]
    /\ main_timers = [id \in TimerIds |-> Unborn]
    /\ removed = FALSE
    /\ burst = NoBurst
    /\ update_lock = Unlocked
    /\ ops = [id \in OpIds |-> NoOp]

\* The controller right after __init__ in a house whose valves are closed.
ControllerAtRest ==
    /\ ControllerCreated
    /\ valveOn = [z \in Zones |-> FALSE]

AggInit ==
    /\ ControllerAtRest
    /\ self_zones = <<"z1", "z2", "z3">>
    /\ main_climate_entity = FALSE
    /\ mainClimate = MainClimateState("unavailable", None)
    /\ zoneTemp = [z \in Zones |-> None]
    /\ aggIn \in [zones : {AggZones(l) : l \in AggZoneLists},
                  hvac_mode : {"heat", "cool"},
                  compensation_factor : AggFactors,
                  all_satisfied_mode : AggWeights]
    /\ aggOut = NotCalled
    /\ aggPrev = NoPrev

\* The status layer and the control loop aggregate the drawn zones.
Aggregate ==
    /\ ~aggOut.done
    /\ aggOut' = AggApply(aggIn)
    /\ UNCHANGED <<aggIn, aggPrev, configVars, controllerVars, hostVars,
                   historyVars, taskVars>>

\* The slider is raised and the same zones are aggregated again.
RaiseSlider(w) ==
    /\ aggOut.done
    /\ aggPrev = NoPrev
    /\ w > aggIn.all_satisfied_mode
    /\ aggPrev' = [all_satisfied_mode |-> aggIn.all_satisfied_mode,
                   core |-> aggOut.core, calc |-> aggOut.calc]
    /\ aggIn' = [aggIn EXCEPT !.all_satisfied_mode = w]
    /\ aggOut' = AggApply(aggIn')
    /\ UNCHANGED <<configVars, controllerVars, hostVars, historyVars,
                   taskVars>>

AggNext ==
    \/ Aggregate
    \/ \E w \in AggWeights : RaiseSlider(w)

SpecAgg == AggInit /\ [][AggNext]_vars


(***************************************************************************)
(* climate.py: what the control loop reads                                 *)
(***************************************************************************)
\* The configured zones as a set.
Configured == {self_zones[i] : i \in 1..Len(self_zones)}

\* The zone as the control loop reads it from the host (climate.py lines
\* 719-735 and 829-859).
ZoneView(z, temps) ==
    ZoneData(z, temps[z], zoneTarget[z],
             target_temp_offset[z], target_temp_offset_closing[z], valveOn[z])

ZoneViews(temps) ==
    [i \in 1..Len(self_zones) |-> ZoneView(self_zones[i], temps)]

\* The aggregation of one pass or one setpoint update.
DesiredMainTarget(mode, temps) ==
    calculate_desired_main_target(ZoneViews(temps), mode,
                                  compensation_factor, all_satisfied_mode,
                                  main_min_temp, main_max_temp)

(***************************************************************************)
(* climate.py: the decision of _async_control_valves                       *)
(***************************************************************************)
\* A mutant of ReopenSuppressed: the suppression is never applied.
ReopenNeverSuppressed(is_currently_open, entry) == FALSE

\* The reopen suppression of an underheated zone (climate.py lines 868-870):
\* the valve is closed, it has an entry and the entry's time has not passed.
ReopenSuppressed(is_currently_open, entry) ==
    ~is_currently_open /\ entry # NoEntry /\ entry > 0

\* A mutant of SatisfiedShouldOpen: the comparison of Cool is used in Heat
\* and that of Heat in Cool.
SatisfiedShouldOpenInverted(mode, zone_target, desired_main_target, is_holding_mode) ==
    IF is_holding_mode THEN TRUE
    ELSE IF desired_main_target # None
    THEN IF mode = "heat"
         THEN zone_target <= desired_main_target
         ELSE zone_target >= desired_main_target
    ELSE FALSE

\* The decision for a Satisfied zone before anticipation (climate.py lines
\* 886-903 in Heat, 931-937 in Cool).
SatisfiedShouldOpen(mode, zone_target, desired_main_target, is_holding_mode) ==
    IF is_holding_mode THEN TRUE
    ELSE IF desired_main_target # None
    THEN IF mode = "heat"
         THEN zone_target >= desired_main_target
         ELSE zone_target <= desired_main_target
    ELSE FALSE

\* What a decision yields: should_open, the zone's suppression entry after it,
\* and whether the decision wrote the entry.
Decision(should_open, entry, wrote_entry) ==
    [should_open |-> should_open, entry |-> entry, wrote_entry |-> wrote_entry]

\* A mutant of UnderheatedDecision: a suppressed reopen uses its entry up.
UnderheatedDecisionOnce(is_currently_open, entry) ==
    IF ReopenSuppressed(is_currently_open, entry)
    THEN Decision(FALSE, NoEntry, FALSE)
    ELSE Decision(TRUE, IF ~is_currently_open THEN NoEntry ELSE entry, FALSE)

\* The decision for an Underheated zone in Heat (climate.py lines 863-878):
\* open, unless the reopen is suppressed; a closed valve's entry whose time has
\* passed is deleted.
UnderheatedDecision(is_currently_open, entry) ==
    IF ReopenSuppressed(is_currently_open, entry)
    THEN Decision(FALSE, entry, FALSE)
    ELSE Decision(TRUE, IF ~is_currently_open THEN NoEntry ELSE entry, FALSE)

\* A mutant of WrongSideDecision: the zone's suppression entry is dropped.
WrongSideDecisionClears(entry) == Decision(FALSE, NoEntry, FALSE)

\* The decision for a zone that is Overheated in Heat (climate.py lines
\* 880-882) or Undercooled in Cool (lines 926-928): closed, the memory is not
\* touched.
WrongSideDecision(entry) == Decision(FALSE, entry, FALSE)

\* A mutant of EarlyClose: the entry is written at the upper bound too.
EarlyCloseAlwaysSuppresses(current_temp, upper_bound, entry) ==
    Decision(FALSE, valve_transition_delay, TRUE)

\* The anticipation's override (climate.py lines 909-920): closed, and the
\* reopen is suppressed for the transition delay if the temperature is still
\* under the upper bound.
EarlyClose(current_temp, upper_bound, entry) ==
    IF current_temp < upper_bound
    THEN Decision(FALSE, valve_transition_delay, TRUE)
    ELSE Decision(FALSE, entry, FALSE)

\* The decision of one control pass for one zone that reports a temperature
\* (climate.py lines 853-937).
Decide(mode, zone, entry, desired_main_target, is_holding_mode) ==
    LET b == SatisfactionBounds(mode, zone.target_temp, zone.target_offset,
                                zone.target_offset_closing)
        lower_bound == b[1]
        upper_bound == b[2]
        zone_status == get_zone_status(mode, zone.current_temp, lower_bound,
                                       upper_bound)
        base == SatisfiedShouldOpen(mode, zone.target_temp, desired_main_target,
                                    is_holding_mode)
        physical_close_threshold == upper_bound - physical_close_anticipation
    IN  IF mode = "heat"
        THEN IF zone_status = "underheated"
             THEN UnderheatedDecision(zone.is_valve_open, entry)
             ELSE IF zone_status = "overheated"
             THEN WrongSideDecision(entry)
             ELSE IF /\ zone.is_valve_open
                     /\ base
                     /\ zone.current_temp >= physical_close_threshold
             THEN EarlyClose(zone.current_temp, upper_bound, entry)
             ELSE Decision(base, entry, FALSE)
        ELSE IF zone_status = "overheated" THEN Decision(TRUE, entry, FALSE)
             ELSE IF zone_status = "undercooled"
             THEN WrongSideDecision(entry)
             ELSE Decision(base, entry, FALSE)

\* zone_status of a zone that reports a temperature (climate.py lines
\* 853-859).
ZoneStatus(mode, zone) ==
    LET b == SatisfactionBounds(mode, zone.target_temp, zone.target_offset,
                                zone.target_offset_closing)
    IN  get_zone_status(mode, zone.current_temp, b[1], b[2])

(***************************************************************************)
(* climate.py: the scheduling of _async_control_valves                     *)
(***************************************************************************)
\* A mutant of Promotions: the floor is not enforced.
PromotionsNone(mode, valves_to_turn_on, valves_to_turn_off) == {{}}

\* A mutant of Promotions: the candidates are taken in any order.
PromotionsAnyOrder(mode, valves_to_turn_on, valves_to_turn_off) ==
    IF mode = "heat" /\ Cardinality(valves_to_turn_on) < min_valves_open
    THEN LET needed == min_valves_open - Cardinality(valves_to_turn_on)
             k == Min2(needed, Cardinality(valves_to_turn_off))
         IN  {P \in SUBSET valves_to_turn_off : Cardinality(P) = k}
    ELSE {{}}

\* The sets of valves the minimum-open rule may add to valves_to_turn_on
\* (climate.py lines 967-1000): the first `needed` of the fallback valves
\* followed by the others, each group in the iteration order of a Python set,
\* which the code does not fix.
Promotions(mode, valves_to_turn_on, valves_to_turn_off) ==
    IF mode = "heat" /\ Cardinality(valves_to_turn_on) < min_valves_open
    THEN LET fallback_valves == valves_to_turn_off \cap fallback_zone_names
             non_fallback_valves == valves_to_turn_off \ fallback_zone_names
             needed == min_valves_open - Cardinality(valves_to_turn_on)
             k == Min2(needed, Cardinality(valves_to_turn_off))
         IN  IF k <= Cardinality(fallback_valves)
             THEN {P \in SUBSET fallback_valves : Cardinality(P) = k}
             ELSE {fallback_valves \cup Q : Q \in
                     {R \in SUBSET non_fallback_valves :
                         Cardinality(R) = k - Cardinality(fallback_valves)}}
    ELSE {{}}

\* A mutant of NeedsDelay: the close is deferred only below the floor.
NeedsDelayBelowFloor(valves_actually_turning_on, currently_open_count) ==
    valves_actually_turning_on # {} /\ currently_open_count < min_valves_open

\* needs_delay (climate.py lines 1042-1045).
NeedsDelay(valves_actually_turning_on, currently_open_count) ==
    valves_actually_turning_on # {} /\ currently_open_count <= min_valves_open

\* One gathered batch of actuator calls.
Batch(service, valves) == [service |-> service, valves |-> valves]

\* The batches that are not empty, in order.
Batches(first, second) ==
    (IF first.valves # {} THEN <<first>> ELSE <<>>)
    \o (IF second.valves # {} THEN <<second>> ELSE <<>>)

\* A mutant of PassBatches: the close batch is issued before the open batch.
PassBatchesCloseFirst(valves_actually_turning_on, valves_actually_turning_off, needs_delay) ==
    Batches(Batch("turn_off", IF needs_delay THEN {}
                              ELSE valves_actually_turning_off),
            Batch("turn_on", valves_actually_turning_on))

\* The batches of actuator calls one control pass issues and awaits, in order
\* (climate.py lines 1013-1082): phase 1 turns on, phase 2 turns off unless
\* the close is deferred.
PassBatches(valves_actually_turning_on, valves_actually_turning_off, needs_delay) ==
    Batches(Batch("turn_on", valves_actually_turning_on),
            Batch("turn_off", IF needs_delay THEN {}
                              ELSE valves_actually_turning_off))

\* The valves a sequence of batches calls turn_on or turn_off for.
Commanded(batches, service) ==
    UNION {batches[i].valves :
              i \in {j \in 1..Len(batches) : batches[j].service = service}}

\* The valve entities' states after the batches: the service calls are not
\* blocking and each may fail (climate.py lines 1164-1176), so each commanded
\* valve either reports the commanded state or keeps its state.
ValvesAfter(batches) ==
    {[z \in Zones |->
         IF z \in obeyed /\ z \in Commanded(batches, "turn_on") THEN TRUE
         ELSE IF z \in obeyed /\ z \in Commanded(batches, "turn_off") THEN FALSE
         ELSE valveOn[z]] :
        obeyed \in SUBSET (Commanded(batches, "turn_on")
                             \cup Commanded(batches, "turn_off"))}

(***************************************************************************)
(* climate.py: the valve operations                                        *)
(***************************************************************************)
\* What a valve operation did: whether it was a control pass that reached the
\* scheduling, the batches it issued, the closes it deferred, whether it
\* counted no more open valves than the floor, the zones it decided open, the
\* zones it found Underheated with a closed valve inside the delay after an
\* early close, the zones whose early close it recorded, and the suppression
\* memory and the deferred close task it leaves.
ValveOutcome(pass, batches, deferred, at_floor, decided_open, in_window, early_closed, seen, entries, task) ==
    [pass |-> pass, batches |-> batches, deferred |-> deferred,
     at_floor |-> at_floor, decided_open |-> decided_open,
     in_window |-> in_window, early_closed |-> early_closed, seen |-> seen,
     entries |-> entries, task |-> task]

\* An operation that issues its batches and touches nothing else.
OnlyBatches(batches) ==
    ValveOutcome(FALSE, batches, {}, FALSE, {}, {}, {}, NothingSeen,
                 valve_no_reopen_until, delayed_valve_close_task)

\* An operation that returns at once.
NoValveAction == OnlyBatches(<<>>)

\* A decision loop that evaluates every configured zone, reading or not.
EvaluatedAll(temps) == Configured

\* The zones the decision loop evaluates: those with a valve whose
\* temperature is available (climate.py lines 829-839).
Evaluated(temps) == {z \in Configured : temps[z] # None}

\* _async_control_valves (climate.py lines 809-1082) when the controller is in
\* the mode given and the host shows the temperatures given: one outcome per order in which
\* the floor promotion may take its candidates.
ControlValves(mode, temps) ==
    IF mode \notin {"heat", "cool"}
    THEN {NoValveAction}
    ELSE LET agg == DesiredMainTarget(mode, temps)
             evaluated == Evaluated(temps)
             dec == [z \in Zones |->
                        Decide(mode, ZoneView(z, temps),
                               valve_no_reopen_until[z], agg.desired_main,
                               agg.is_holding_mode)]
             zones_needing_action == {z \in evaluated : dec[z].should_open}
             in_window ==
                 {z \in evaluated :
                     /\ ZoneStatus(mode, ZoneView(z, temps)) = "underheated"
                     /\ ~valveOn[z]
                     /\ reopenHold[z] > 0}
             early_closed == {z \in evaluated : dec[z].wrote_entry}
             again == [z \in Zones |->
                          Decide(mode, ZoneView(z, temps), dec[z].entry,
                                 DesiredMainTarget(mode, temps).desired_main,
                                 DesiredMainTarget(mode, temps).is_holding_mode)]
             needing ==
                 {z \in evaluated :
                     ZoneStatus(mode, ZoneView(z, temps)) =
                        (IF mode = "heat" THEN "underheated" ELSE "overheated")}
             suppressed ==
                 {z \in needing : /\ ~valveOn[z]
                                  /\ valve_no_reopen_until[z] # NoEntry
                                  /\ valve_no_reopen_until[z] > 0}
             entries == [z \in Zones |->
                            IF z \in evaluated THEN dec[z].entry
                            ELSE valve_no_reopen_until[z]]
             currently_open_count ==
                 Cardinality({v \in Configured : valveOn[v]})
         IN  {LET valves_to_turn_on == zones_needing_action \cup promoted
                  valves_to_turn_off == Configured \ valves_to_turn_on
                  valves_actually_turning_on ==
                      {v \in valves_to_turn_on : ~valveOn[v]}
                  valves_actually_turning_off ==
                      {v \in valves_to_turn_off : valveOn[v]}
                  needs_delay ==
                      /\ valves_actually_turning_off # {}
                      /\ NeedsDelay(valves_actually_turning_on,
                                    currently_open_count)
              IN  ValveOutcome(
                      TRUE,
                      PassBatches(valves_actually_turning_on,
                                  valves_actually_turning_off, needs_delay),
                      IF needs_delay THEN valves_actually_turning_off ELSE {},
                      currently_open_count <= min_valves_open,
                      zones_needing_action, in_window, early_closed,
                      [decided_again |->
                           {z \in evaluated : again[z].should_open},
                       needing |-> needing, suppressed |-> suppressed,
                       promoted |-> promoted,
                       valves_to_turn_on |-> valves_to_turn_on,
                       valves_to_turn_off |-> valves_to_turn_off,
                       open_before |-> {v \in Configured : valveOn[v]},
                       early_closed |-> early_closed,
                       superseded |-> delayed_valve_close_task.valves],
                      entries,
                      IF needs_delay
                      THEN [valves |-> valves_actually_turning_off,
                            left |-> valve_transition_delay]
                      ELSE NoTask) :
              promoted \in Promotions(mode, zones_needing_action,
                                      Configured \ zones_needing_action)}

\* _async_turn_off_all_valves (climate.py lines 1212-1235): a close for every
\* valve but the first min_valves_open of the configuration order.
TurnOffAllValves ==
    LET valves_to_keep_open ==
            {self_zones[i] : i \in 1..Min2(min_valves_open, Len(self_zones))}
    IN  {OnlyBatches(Batches(Batch("turn_off",
                                   Configured \ valves_to_keep_open),
                             Batch("turn_off", {})))}

\* _async_control_valves_for_cooling (climate.py lines 1237-1295): one gather
\* of the opens of the closed fallback valves and the closes of the open
\* others.
ControlValvesForCooling(mode) ==
    IF mode # "cool"
    THEN {NoValveAction}
    ELSE LET fallback_valve_entities == Configured \cap fallback_zone_names
         IN  {OnlyBatches(Batches(
                  Batch("turn_on",
                        {v \in fallback_valve_entities : ~valveOn[v]}),
                  Batch("turn_off",
                        {v \in Configured \ fallback_valve_entities :
                            valveOn[v]})))}

\* _async_close_valves_except_fallback (climate.py lines 1297-1342).
CloseValvesExceptFallback ==
    LET fallback_valve_entities == Configured \cap fallback_zone_names
    IN  {OnlyBatches(Batches(
             Batch("turn_off",
                   {v \in Configured \ fallback_valve_entities : valveOn[v]}),
             Batch("turn_off", {})))}

(***************************************************************************)
(* climate.py: the setpoint update                                         *)
(***************************************************************************)
Abs(x) == IF x >= 0 THEN x ELSE -x

\* current_main_target (climate.py lines 580-591).
Readback(main) ==
    IF main.state \in {"unknown", "unavailable"} THEN None
    ELSE main.temperature

\* A mutant of ShouldUpdate: the cached value decides also when the upstream
\* target can be read.
ShouldUpdateFromCache(desired_main, current_main_target, cached) ==
    cached = None \/ Abs(desired_main - cached) >= main_change_threshold

\* should_update (climate.py lines 597-601).
ShouldUpdate(desired_main, current_main_target, cached) ==
    IF current_main_target # None
    THEN Abs(desired_main - current_main_target) >= main_change_threshold
    ELSE cached = None \/ Abs(desired_main - cached) >= main_change_threshold

\* _async_update_main_climate (climate.py lines 543-652) up to its service
\* call: the candidate, whether it is within the threshold of the read-back
\* target, whether it is the threshold or more away from the cached target (or
\* none is cached), and whether the candidate is sent.
UpdateMainClimate(mode, temps, main) ==
    IF mode \notin {"heat", "cool"} \/ ~main_climate_entity
    THEN NoUpdate
    ELSE LET desired_main == DesiredMainTarget(mode, temps).desired_main
         IN  [ran |-> TRUE, candidate |-> desired_main,
              is_holding_mode |->
                  DesiredMainTarget(mode, temps).is_holding_mode,
              near_readback |->
                  /\ desired_main # None
                  /\ Readback(main) # None
                  /\ Abs(desired_main - Readback(main)) < main_change_threshold,
              far_from_cached |->
                  /\ desired_main # None
                  /\ \/ last_main_target = None
                     \/ Abs(desired_main - last_main_target)
                            >= main_change_threshold,
              send |-> /\ desired_main # None
                       /\ ShouldUpdate(desired_main, Readback(main),
                                       last_main_target)]

(***************************************************************************)
(* climate.py: the handlers                                                *)
(***************************************************************************)
\* The temperatures a zone's source reports (None: unknown or unavailable).
SensorTemps ==
    [z \in Zones |->
        IF z = "z1" THEN {1900, 1960, 2100}
        ELSE IF z = "z2" THEN {1900, 1960}
        ELSE {None, 2060}]

\* The readings of the only zone of the installation that has a main climate:
\* 20.4 is inside the zone's band in Cool.
SetpointTemps == SensorTemps["z1"] \cup {2040, None}

\* The temperatures a user sets on the controller's own entity: inside the
\* entity's range 5.0 .. 35.0 (climate.py lines 123-124).
UserTemperatures == {2104, 3000}

\* The states of the main climate entity the host reports.
MainClimateStates ==
    {MainClimateState("unavailable", None)}
    \cup {MainClimateState(s, t) : s \in {"heat", "off"}, t \in {1995, 2065}}

\* _attr_hvac_modes (climate.py lines 203-214): cooling is offered when the
\* main climate entity lists it, which the main climate of an installation
\* that has one does here.
AvailableModes ==
    IF main_climate_entity THEN {"heat", "cool", "off"} ELSE {"heat", "off"}

\* The valves the batches close within the transition delay that began when a
\* control pass deferred their close.
Held(batches) == {z \in Commanded(batches, "turn_off") : closeHold[z] > 0}

\* One handler run to completion: the controller's mode and the host's
\* readings as the handler finds or sets them, one outcome of its valve
\* operation, its setpoint update, and the temperatures it sends to the main
\* climate directly.  The update's service call may raise, which leaves
\* _last_main_target alone (climate.py lines 619-636).
Handle(op, mode, temps, main, outcomes, update, direct) ==
    \E v \in outcomes :
      \E ok \in (IF update.send THEN BOOLEAN ELSE {TRUE}) :
        /\ hvac_mode' = mode
        /\ zoneTemp' = temps
        /\ mainClimate' = main
        /\ valveOn' \in ValvesAfter(v.batches)
        /\ valve_no_reopen_until' = v.entries
        /\ delayed_valve_close_task' = v.task
        /\ delayed_close_tasks' =
               IF v.pass
               THEN Scheduled(CancelPending(delayed_close_tasks,
                                            delayed_valve_close_task), v.task)
               ELSE delayed_close_tasks
        /\ last_main_target' =
               IF update.send /\ ok THEN update.candidate ELSE last_main_target
        /\ closeHold' = [z \in Zones |->
                            IF z \in v.deferred THEN valve_transition_delay
                            ELSE closeHold[z]]
        /\ reopenHold' = [z \in Zones |->
                             IF z \in v.early_closed
                             THEN valve_transition_delay ELSE reopenHold[z]]
        /\ act' = [op |-> op, pass |-> v.pass, batches |-> v.batches,
                   deferred |-> v.deferred, at_floor |-> v.at_floor,
                   decided_open |-> v.decided_open,
                   in_window |-> v.in_window,
                   held |-> Held(v.batches), seen |-> v.seen,
                   update |-> update,
                   sent |-> direct \o (IF update.send
                                       THEN <<update.candidate>> ELSE <<>>),
                   gate |-> NoGate]
        /\ UNCHANGED <<aggVars, configVars, zoneTarget>>

\* async_sensor_changed (climate.py lines 249-316) on a new reading of a zone:
\* a control pass and a setpoint update at once.
SensorChanged(z, t) ==
    /\ z \in Configured
    /\ t # zoneTemp[z]
    /\ LET temps == [zoneTemp EXCEPT ![z] = t]
       IN  Handle("sensor_changed", hvac_mode, temps, mainClimate,
                  ControlValves(hvac_mode, temps),
                  UpdateMainClimate(hvac_mode, temps, mainClimate), <<>>)
    /\ UNCHANGED taskVars

\* A mutant of Reconcile: the tick runs the setpoint update alone.
ReconcileUpdateOnly ==
    /\ Handle("reconcile", hvac_mode, zoneTemp, mainClimate, {NoValveAction},
              UpdateMainClimate(hvac_mode, zoneTemp, mainClimate), <<>>)
    /\ UNCHANGED taskVars

\* async_reconcile (climate.py lines 355-372).
Reconcile ==
    /\ Handle("reconcile", hvac_mode, zoneTemp, mainClimate,
              ControlValves(hvac_mode, zoneTemp),
              UpdateMainClimate(hvac_mode, zoneTemp, mainClimate), <<>>)
    /\ UNCHANGED taskVars

\* async_set_hvac_mode (climate.py lines 461-487).
SetHvacMode(mode) ==
    /\ mode \in AvailableModes
    /\ Handle("set_hvac_mode", mode, zoneTemp, mainClimate,
              IF mode = "off" THEN TurnOffAllValves
              ELSE IF mode = "heat" THEN ControlValves(mode, zoneTemp)
              ELSE ControlValvesForCooling(mode),
              UpdateMainClimate(mode, zoneTemp, mainClimate), <<>>)
    /\ UNCHANGED taskVars

\* async_set_temperature (climate.py lines 431-459): the temperature goes to
\* the main climate as given, then a control pass runs.
SetTemperature(temperature) ==
    /\ temperature # None
    /\ Handle("set_temperature", hvac_mode, zoneTemp, mainClimate,
              ControlValves(hvac_mode, zoneTemp), NoUpdate,
              IF main_climate_entity THEN <<temperature>> ELSE <<>>)
    /\ UNCHANGED taskVars

\* async_climate_changed (climate.py lines 327-345), registered when a main
\* climate entity is configured.
MainClimateChanged(new_state) ==
    /\ main_climate_entity
    /\ new_state # mainClimate
    /\ Handle("climate_changed", hvac_mode, zoneTemp, new_state,
              IF new_state.state = "off" THEN CloseValvesExceptFallback
              ELSE {NoValveAction},
              NoUpdate, <<>>)
    /\ UNCHANGED taskVars

\* _async_delayed_valve_close (climate.py lines 1178-1210) once its sleep is
\* over: the closes it was given, outside the gate.
DelayedValveClose ==
    \E task \in delayed_close_tasks :
      /\ task.left = 0
      /\ LET batches == <<Batch("turn_off", task.valves)>>
         IN  /\ valveOn' \in ValvesAfter(batches)
             /\ act' = [Idle EXCEPT !.op = "delayed_valve_close",
                                    !.batches = batches,
                                    !.held = Held(batches)]
      /\ delayed_close_tasks' = delayed_close_tasks \ {task}
      /\ delayed_valve_close_task' = NoTask
    /\ UNCHANGED <<aggVars, configVars, hvac_mode, last_main_target,
                   valve_no_reopen_until, zoneTemp, zoneTarget, mainClimate,
                   closeHold, reopenHold, taskVars>>

\* One tick of the clock (one reconciliation interval) passes; a sleep that is
\* over ends before the next tick.
Tick(left) == IF left # None /\ left > 0 THEN left - 1 ELSE left

\* One tick of a debounce task's sleep.
TimerTick(timer) == [timer EXCEPT !.left = Tick(@)]

\* A task whose sleep is over: it runs before the next tick.
Due(timers) ==
    {id \in TimerIds : timers[id].status = "sleeping" /\ timers[id].left = 0}

Elapse ==
    /\ \A task \in delayed_close_tasks : task.left # 0
    /\ Due(valve_timers) = {} /\ Due(main_timers) = {}
    /\ valve_timers' = [id \in TimerIds |-> TimerTick(valve_timers[id])]
    /\ main_timers' = [id \in TimerIds |-> TimerTick(main_timers[id])]
    /\ burst' = [burst EXCEPT
                    !.since = Min2(@ + 1, zone_target_change_delay)]
    /\ valve_no_reopen_until' =
           [z \in Zones |-> Tick(valve_no_reopen_until[z])]
    /\ delayed_valve_close_task' =
           [delayed_valve_close_task EXCEPT !.left = Tick(@)]
    /\ delayed_close_tasks' =
           {[task EXCEPT !.left = Tick(@)] : task \in delayed_close_tasks}
    /\ closeHold' = [z \in Zones |-> Tick(closeHold[z])]
    /\ reopenHold' = [z \in Zones |-> Tick(reopenHold[z])]
    /\ act' = Idle
    /\ UNCHANGED <<aggVars, configVars, hvac_mode, last_main_target,
                   zoneTemp, zoneTarget, valveOn, mainClimate,
                   zone_target_change_valve_timer,
                   zone_target_change_main_timer, removed, gateVars,
                   main_updates>>

(***************************************************************************)
(* climate.py: the debounce of zone target edits, and the teardown         *)
(***************************************************************************)
\* The targets a user sets on a zone climate entity.
EditTargets == {2000, 2050}

\* The task a new pair of debounce tasks gets: the number of its edit.
NextTimer == CHOOSE id \in TimerIds :
                /\ valve_timers[id] = Unborn
                /\ \A other \in TimerIds :
                       valve_timers[other] = Unborn => id <= other

\* `if timer and not timer.done(): timer.cancel()` (climate.py lines 291-302
\* and 389-401): the task the field refers to, if it has not finished, is
\* asked to cancel.
CancelTimer(timers, field) ==
    IF field # NoTimer /\ timers[field].status \in {"sleeping", "cancelled"}
    THEN [timers EXCEPT ![field] = Timer("cancelled", None)]
    ELSE timers

\* async_sensor_changed (climate.py lines 249-316) on a new target of a zone
\* climate entity: in Heat or Cool the timers the two fields refer to are
\* cancelled and a new pair of debounce tasks starts its sleep.
TargetChanged(z, target) ==
    /\ z \in Configured
    /\ target # zoneTarget[z]
    /\ \E id \in TimerIds : valve_timers[id] = Unborn
    /\ zoneTarget' = [zoneTarget EXCEPT ![z] = target]
    /\ IF hvac_mode \in {"heat", "cool"}
       THEN /\ valve_timers' =
                  [CancelTimer(valve_timers, zone_target_change_valve_timer)
                      EXCEPT ![NextTimer] =
                          Timer("sleeping", zone_target_change_delay)]
            /\ main_timers' =
                  [CancelTimer(main_timers, zone_target_change_main_timer)
                      EXCEPT ![NextTimer] =
                          Timer("sleeping", zone_target_change_delay)]
            /\ zone_target_change_valve_timer' = NextTimer
            /\ zone_target_change_main_timer' = NextTimer
            /\ burst' =
                  IF /\ burst.last # NoTimer
                     /\ burst.since < zone_target_change_delay
                  THEN [burst EXCEPT !.last = NextTimer, !.since = 0]
                  ELSE [first |-> NextTimer, last |-> NextTimer, since |-> 0,
                        valve_runs |-> 0, main_runs |-> 0, early |-> FALSE]
       ELSE UNCHANGED <<valve_timers, main_timers,
                        zone_target_change_valve_timer,
                        zone_target_change_main_timer, burst>>
    /\ act' = [Idle EXCEPT !.op = "target_changed"]
    /\ UNCHANGED <<aggVars, configVars, controllerVars, zoneTemp, valveOn,
                   mainClimate, closeHold, reopenHold, removed, gateVars,
                   main_updates>>

\* _async_delayed_valve_control (climate.py lines 515-527) resumed with the
\* cancellation: CancelledError is raised again and the finally clause clears
\* the field.
DelayedValveControlCancelled(id) ==
    /\ valve_timers[id].status = "cancelled"
    /\ valve_timers' = [valve_timers EXCEPT ![id] = Timer("done", None)]
    /\ zone_target_change_valve_timer' = NoTimer
    /\ act' = [Idle EXCEPT !.op = "delayed_valve_control_cancelled"]
    /\ UNCHANGED <<aggVars, configVars, controllerVars, hostVars, closeHold,
                   reopenHold, zone_target_change_main_timer, main_timers,
                   removed, burst, gateVars,
                   main_updates>>

\* _async_delayed_main_climate_update (climate.py lines 529-541) resumed with
\* the cancellation.
DelayedMainClimateUpdateCancelled(id) ==
    /\ main_timers[id].status = "cancelled"
    /\ main_timers' = [main_timers EXCEPT ![id] = Timer("done", None)]
    /\ zone_target_change_main_timer' = NoTimer
    /\ act' = [Idle EXCEPT !.op = "delayed_main_climate_update_cancelled"]
    /\ UNCHANGED <<aggVars, configVars, controllerVars, hostVars, closeHold,
                   reopenHold, zone_target_change_valve_timer, valve_timers,
                   removed, burst, gateVars,
                   main_updates>>

\* The burst after the task of the edit given has run its pass or update: a
\* task of the burst counts, and it ran early unless it is the task of the
\* burst's last edit.
AfterRun(id, runs) ==
    IF burst.first # NoTimer /\ id >= burst.first
    THEN [burst EXCEPT ![runs] = @ + 1,
                       !.early = @ \/ id < burst.last]
    ELSE burst

\* _async_delayed_valve_control (climate.py lines 515-527) once its sleep is
\* over: a control pass, then the finally clause clears the field.
DelayedValveControl(id) ==
    /\ id \in Due(valve_timers)
    /\ Handle("delayed_valve_control", hvac_mode, zoneTemp, mainClimate,
              ControlValves(hvac_mode, zoneTemp), NoUpdate, <<>>)
    /\ valve_timers' = [valve_timers EXCEPT ![id] = Timer("done", None)]
    /\ zone_target_change_valve_timer' = NoTimer
    /\ burst' = AfterRun(id, "valve_runs")
    /\ UNCHANGED <<zone_target_change_main_timer, main_timers, removed,
                   gateVars,
                   main_updates>>

\* _async_delayed_main_climate_update (climate.py lines 529-541) once its
\* sleep is over: a setpoint update, then the finally clause clears the field.
DelayedMainClimateUpdate(id) ==
    /\ id \in Due(main_timers)
    /\ Handle("delayed_main_climate_update", hvac_mode, zoneTemp, mainClimate,
              {NoValveAction},
              UpdateMainClimate(hvac_mode, zoneTemp, mainClimate), <<>>)
    /\ main_timers' = [main_timers EXCEPT ![id] = Timer("done", None)]
    /\ zone_target_change_main_timer' = NoTimer
    /\ burst' = AfterRun(id, "main_runs")
    /\ UNCHANGED <<zone_target_change_valve_timer, valve_timers, removed,
                   gateVars,
                   main_updates>>

\* async_will_remove_from_hass (climate.py lines 386-409): the tasks the three
\* fields refer to are cancelled.  The host has dropped the listeners and the
\* reconciliation interval before.
WillRemoveFromHass ==
    /\ ~removed
    /\ removed' = TRUE
    /\ valve_timers' =
           CancelTimer(valve_timers, zone_target_change_valve_timer)
    /\ main_timers' = CancelTimer(main_timers, zone_target_change_main_timer)
    /\ delayed_valve_close_task' = NoTask
    /\ delayed_close_tasks' = delayed_close_tasks \ {delayed_valve_close_task}
    /\ act' = [Idle EXCEPT !.op = "will_remove_from_hass"]
    /\ UNCHANGED <<aggVars, configVars, hvac_mode, last_main_target,
                   valve_no_reopen_until, hostVars, closeHold, reopenHold,
                   zone_target_change_valve_timer,
                   zone_target_change_main_timer, burst, gateVars,
                   main_updates>>

(***************************************************************************)
(* climate.py: the valve operations behind _update_lock                    *)
(***************************************************************************)
\* A mutant of LockFree: the lock is taken whether it is held or not.
LockAlwaysFree(lock) == TRUE

\* The condition on which `async with self._update_lock` enters without
\* waiting (climate.py lines 816, 1214, 1239, 1303): the lock is not held and
\* nobody waits for it.
LockFree(lock) == ~lock.locked /\ lock.waiters = <<>>

\* A mutant of SurvivesFailure: a call that raises ends the operation.
AbortsOnFailure(failed) == failed = {}

\* Whether an operation goes on after the calls of one gathered batch, of
\* which those for the valves given raised: each call logs its exception
\* (climate.py lines 1168-1176) and the batch is gathered with
\* return_exceptions=True, so it always does.
SurvivesFailure(failed) == TRUE

\* A mutant of OperationOutcomes: the control pass does not look at the mode
\* once it has the lock.
OperationOutcomesAnyMode(kind, mode, temps) ==
    IF kind = "control_valves" THEN ControlValves("heat", temps)
    ELSE IF kind = "turn_off_all_valves" THEN TurnOffAllValves
    ELSE IF kind = "control_valves_for_cooling"
    THEN ControlValvesForCooling(mode)
    ELSE CloseValvesExceptFallback

\* The outcomes of the operation of a kind.
OperationOutcomes(kind, mode, temps) ==
    IF kind = "control_valves" THEN ControlValves(mode, temps)
    ELSE IF kind = "turn_off_all_valves" THEN TurnOffAllValves
    ELSE IF kind = "control_valves_for_cooling"
    THEN ControlValvesForCooling(mode)
    ELSE CloseValvesExceptFallback

\* What an operation leaves in the history when it leaves the gate.
Exited(op, issued, deferred, failed) ==
    [Idle EXCEPT !.op = op.kind, !.pass = op.pass, !.batches = issued,
                 !.deferred = deferred,
                 !.gate = [exited |-> TRUE, planned |-> op.planned,
                           planned_deferred |-> op.deferred,
                           failed |-> failed]]

\* An operation takes the lock and runs up to its first gathered batch: a
\* control pass decides, writes the suppression memory, cancels the pending
\* delayed close and plans its batches (climate.py lines 816-1014).  An
\* operation with nothing to issue leaves the gate at once.
EnterSection(id, kind, mode, temps, waiters) ==
    \E v \in OperationOutcomes(kind, mode, temps) :
        LET op == [kind |-> kind, pc |-> "section", pass |-> v.pass,
                   planned |-> v.batches, pending |-> v.batches,
                   deferred |-> v.deferred, failed |-> {}]
        IN  /\ valve_no_reopen_until' = v.entries
            /\ delayed_valve_close_task' =
                   IF v.pass THEN NoTask ELSE delayed_valve_close_task
            /\ delayed_close_tasks' =
                   IF v.pass
                   THEN CancelPending(delayed_close_tasks,
                                      delayed_valve_close_task)
                   ELSE delayed_close_tasks
            /\ IF v.batches = <<>>
               THEN /\ ops' = [ops EXCEPT ![id] = NoOp]
                    /\ update_lock' = [locked |-> FALSE, waiters |-> waiters]
                    /\ act' = Exited(op, <<>>, {}, {})
               ELSE /\ ops' = [ops EXCEPT ![id] = op]
                    /\ update_lock' = [locked |-> TRUE, waiters |-> waiters]
                    /\ act' = Idle

\* A trigger starts an operation in the first free task slot: it enters the
\* gate if the lock is free and waits in line otherwise.
Start(kind, mode, temps) ==
    \E id \in OpIds :
        /\ ops[id].pc = "idle"
        /\ \A other \in OpIds : ops[other].pc = "idle" => id <= other
        /\ IF LockFree(update_lock)
           THEN EnterSection(id, kind, mode, temps, update_lock.waiters)
           ELSE /\ ops' = [ops EXCEPT ![id] =
                              [NoOp EXCEPT !.kind = kind, !.pc = "waiting"]]
                /\ update_lock' =
                       [update_lock EXCEPT !.waiters = Append(@, id)]
                /\ act' = Idle
                /\ UNCHANGED <<valve_no_reopen_until,
                               delayed_valve_close_task, delayed_close_tasks>>

\* async_sensor_changed (climate.py lines 312-316) on a new reading: in Heat
\* or Cool a task for a control pass is created.
GateSensorChanged(z, t) ==
    /\ z \in Configured
    /\ t # zoneTemp[z]
    /\ zoneTemp' = [zoneTemp EXCEPT ![z] = t]
    /\ IF hvac_mode \in {"heat", "cool"}
       THEN Start("control_valves", hvac_mode, zoneTemp')
       ELSE /\ act' = Idle
            /\ UNCHANGED <<valve_no_reopen_until, delayed_valve_close_task,
                           delayed_close_tasks, gateVars>>
    /\ UNCHANGED <<aggVars, configVars, hvac_mode, last_main_target,
                   zoneTarget, valveOn, mainClimate, closeHold, reopenHold,
                   timerVars,
                   main_updates>>

\* async_reconcile (climate.py lines 355-364), a debounce expiry (line 520)
\* or async_set_temperature (line 458): a control pass is asked for.
GateControlValves ==
    /\ hvac_mode \in {"heat", "cool"}
    /\ Start("control_valves", hvac_mode, zoneTemp)
    /\ UNCHANGED <<aggVars, configVars, hvac_mode, last_main_target,
                   hostVars, closeHold, reopenHold, timerVars,
                   main_updates>>

\* async_set_hvac_mode (climate.py lines 461-487): the mode is set at once,
\* the mode's operation then asks for the lock.
GateSetHvacMode(mode) ==
    /\ mode \in AvailableModes
    /\ hvac_mode' = mode
    /\ Start(IF mode = "off" THEN "turn_off_all_valves"
             ELSE IF mode = "heat" THEN "control_valves"
             ELSE "control_valves_for_cooling", mode, zoneTemp)
    /\ UNCHANGED <<aggVars, configVars, last_main_target, hostVars,
                   closeHold, reopenHold, timerVars,
                   main_updates>>

\* async_climate_changed (climate.py lines 327-345): when the main climate
\* reports off, a task for close-except-fallback is created.
GateClimateChanged(new_state) ==
    /\ main_climate_entity
    /\ new_state # mainClimate
    /\ mainClimate' = new_state
    /\ IF new_state.state = "off"
       THEN Start("close_valves_except_fallback", hvac_mode, zoneTemp)
       ELSE /\ act' = Idle
            /\ UNCHANGED <<valve_no_reopen_until, delayed_valve_close_task,
                           delayed_close_tasks, gateVars>>
    /\ UNCHANGED <<aggVars, configVars, hvac_mode, last_main_target,
                   zoneTemp, zoneTarget, valveOn, closeHold, reopenHold,
                   timerVars,
                   main_updates>>

\* The first waiting operation is resumed once the lock has been released.
Resume(id) ==
    /\ ops[id].pc = "waiting"
    /\ ~update_lock.locked
    /\ update_lock.waiters # <<>>
    /\ Head(update_lock.waiters) = id
    /\ EnterSection(id, ops[id].kind, hvac_mode, zoneTemp,
                    Tail(update_lock.waiters))
    /\ UNCHANGED <<aggVars, configVars, hvac_mode, last_main_target,
                   hostVars, closeHold, reopenHold, timerVars,
                   main_updates>>

\* The gathered calls of an operation's next batch have been made, those for
\* the valves in `failed` having raised (climate.py lines 1029, 1082, 1235,
\* 1289, 1337).  After its last batch a control pass creates the delayed close
\* task if it deferred its closes (lines 1047-1056), and the lock is released.
Gathered(id) ==
    /\ ops[id].pc = "section"
    /\ LET op == ops[id]
           batch == Head(op.pending)
           issued == SubSeq(op.planned, 1,
                            Len(op.planned) - Len(op.pending) + 1)
       IN  \E failed \in SUBSET batch.valves :
             /\ valveOn' = [z \in Zones |->
                               IF z \in batch.valves \ failed
                               THEN batch.service = "turn_on"
                               ELSE valveOn[z]]
             /\ IF SurvivesFailure(failed) /\ Tail(op.pending) # <<>>
                THEN /\ ops' = [ops EXCEPT ![id].pending = Tail(@),
                                           ![id].failed = @ \cup failed]
                     /\ act' = Idle
                     /\ UNCHANGED <<update_lock, delayed_valve_close_task,
                                    delayed_close_tasks>>
                ELSE LET deferred ==
                             IF SurvivesFailure(failed) THEN op.deferred
                             ELSE {}
                     IN  /\ ops' = [ops EXCEPT ![id] = NoOp]
                         /\ update_lock' =
                                [update_lock EXCEPT !.locked = FALSE]
                         /\ delayed_valve_close_task' =
                                IF deferred # {}
                                THEN [valves |-> deferred,
                                      left |-> valve_transition_delay]
                                ELSE delayed_valve_close_task
                         /\ delayed_close_tasks' =
                                IF deferred # {}
                                THEN Scheduled(
                                         delayed_close_tasks,
                                         [valves |-> deferred,
                                          left |-> valve_transition_delay])
                                ELSE delayed_close_tasks
                         /\ act' = Exited(op, issued, deferred,
                                          op.failed \cup failed)
    /\ UNCHANGED <<aggVars, configVars, hvac_mode, last_main_target,
                   valve_no_reopen_until, zoneTemp, zoneTarget, mainClimate,
                   closeHold, reopenHold, timerVars,
                   main_updates>>

(***************************************************************************)
(* Spec: three zones, no main climate entity                               *)
(***************************************************************************)
\* What the zones report when the controller is added to the host: nothing
\* yet from z3.
FirstReadings ==
    [z \in Zones |-> IF z \in Configured \ {"z3"} THEN 1960 ELSE None]

NoArgs ==
    [zones |-> <<>>, hvac_mode |-> "heat", compensation_factor |-> 0,
     all_satisfied_mode |-> 0]

Init ==
    /\ ControllerAtRest
    /\ self_zones = <<"z1", "z2", "z3">>
    /\ main_climate_entity = FALSE
    /\ mainClimate = MainClimateState("unavailable", None)
    /\ zoneTemp = FirstReadings
    /\ aggIn = NoArgs
    /\ aggOut = NotCalled
    /\ aggPrev = NoPrev

Next ==
    \/ \E z \in Zones : \E t \in SensorTemps[z] : SensorChanged(z, t)
    \/ Reconcile
    \/ \E mode \in {"off", "heat"} : SetHvacMode(mode)
    \/ \E temperature \in UserTemperatures : SetTemperature(temperature)
    \/ DelayedValveClose
    \/ Elapse

Spec == Init /\ [][Next]_vars

(***************************************************************************)
(* SpecSetpoint: one zone and a main climate entity                        *)
(***************************************************************************)
SetpointInit ==
    /\ ControllerAtRest
    /\ self_zones = <<"z1">>
    /\ main_climate_entity = TRUE
    /\ mainClimate \in MainClimateStates
    /\ zoneTemp = FirstReadings
    /\ aggIn = NoArgs
    /\ aggOut = NotCalled
    /\ aggPrev = NoPrev

\* With one valve no pass has a valve to open and another to close, so no
\* close is ever deferred and _async_delayed_valve_close never starts.
SetpointNext ==
    \/ \E t \in SetpointTemps : SensorChanged("z1", t)
    \/ Reconcile
    \/ \E mode \in {"off", "heat", "cool"} : SetHvacMode(mode)
    \/ \E temperature \in UserTemperatures : SetTemperature(temperature)
    \/ \E new_state \in MainClimateStates : MainClimateChanged(new_state)
    \/ Elapse

SpecSetpoint == SetpointInit /\ [][SetpointNext]_vars

(***************************************************************************)
(* SpecDebounce: one zone and a main climate entity, target edits and      *)
(* teardown                                                                *)
(***************************************************************************)
DebounceInit ==
    /\ ControllerAtRest
    /\ self_zones = <<"z1">>
    /\ main_climate_entity = TRUE
    /\ mainClimate = MainClimateState("heat", 1995)
    /\ zoneTemp = FirstReadings
    /\ aggIn = NoArgs
    /\ aggOut = NotCalled
    /\ aggPrev = NoPrev

\* What the host delivers while the entity is there.
DebounceEvents ==
    \/ \E target \in EditTargets : TargetChanged("z1", target)
    \/ \E mode \in {"off", "heat"} : SetHvacMode(mode)
    \/ WillRemoveFromHass

DebounceNext ==
    \/ ~removed /\ DebounceEvents
    \/ \E id \in TimerIds : DelayedValveControlCancelled(id)
    \/ \E id \in TimerIds : DelayedMainClimateUpdateCancelled(id)
    \/ \E id \in TimerIds : DelayedValveControl(id)
    \/ \E id \in TimerIds : DelayedMainClimateUpdate(id)
    \/ Elapse

SpecDebounce == DebounceInit /\ [][DebounceNext]_vars

(***************************************************************************)
(* SpecGate: three zones and a main climate entity, the valve operations   *)
(* as tasks behind the lock                                                *)
(***************************************************************************)
\* The readings of the one zone whose sensor reports while the operations
\* are followed step by step.
GateTemps == SensorTemps["z3"]

\* The states the main climate reports.
GateClimateStates ==
    {MainClimateState("heat", 1995), MainClimateState("off", 1995)}

GateInit ==
    /\ ControllerAtRest
    /\ self_zones = <<"z1", "z2", "z3">>
    /\ main_climate_entity = TRUE
    /\ mainClimate = MainClimateState("heat", 1995)
    /\ zoneTemp = FirstReadings
    /\ aggIn = NoArgs
    /\ aggOut = NotCalled
    /\ aggPrev = NoPrev

GateNext ==
    \/ \E t \in GateTemps : GateSensorChanged("z3", t)
    \/ GateControlValves
    \/ \E mode \in AvailableModes : GateSetHvacMode(mode)
    \/ \E new_state \in GateClimateStates : GateClimateChanged(new_state)
    \/ \E id \in OpIds : Resume(id)
    \/ \E id \in OpIds : Gathered(id)

SpecGate == GateInit /\ [][GateNext]_vars

(***************************************************************************)
(* SpecSteady: three zones whose readings do not change, obedient valves,  *)
(* the periodic control pass                                               *)
(***************************************************************************)
\* The valve entities' states when every command of the batches is obeyed.
Obeyed(batches) ==
    [z \in Zones |->
        IF z \in Commanded(batches, "turn_on") THEN TRUE
        ELSE IF z \in Commanded(batches, "turn_off") THEN FALSE
        ELSE valveOn[z]]

\* The readings and the valves' states are drawn once; the controller is as
\* __init__ leaves it.
SteadyInit ==
    /\ ControllerCreated
    /\ valveOn \in [Zones -> BOOLEAN]
    /\ self_zones = <<"z1", "z2", "z3">>
    /\ main_climate_entity = FALSE
    /\ mainClimate = MainClimateState("unavailable", None)
    /\ zoneTemp \in [Zones -> UNION {SensorTemps[z] : z \in Zones}]
    /\ \A z \in Zones : zoneTemp[z] \in SensorTemps[z]
    /\ aggIn = NoArgs
    /\ aggOut = NotCalled
    /\ aggPrev = NoPrev

\* The user switches the controller to Heat, once.
SteadySetHeat ==
    /\ hvac_mode = "off"
    /\ SetHvacMode("heat")
    /\ valveOn' = Obeyed(act'.batches)

\* The interval timer has fired and its pass has not run yet.
ReconcileDue ==
    /\ hvac_mode = "heat"
    /\ act.op \notin {"reconcile", "set_hvac_mode"}

\* async_reconcile, once in every reconciliation interval.
SteadyReconcile ==
    /\ ReconcileDue
    /\ Reconcile
    /\ valveOn' = Obeyed(act'.batches)

\* The delayed close task, its sleep over.
SteadyDelayedValveClose ==
    /\ DelayedValveClose
    /\ valveOn' = Obeyed(act'.batches)

\* The next reconciliation interval begins.
SteadyElapse ==
    /\ act.op \in {"reconcile", "set_hvac_mode"}
    /\ Elapse

SteadyNext ==
    \/ SteadySetHeat
    \/ SteadyReconcile
    \/ SteadyDelayedValveClose
    \/ SteadyElapse

\* Time passes, a task whose sleep is over runs, and a pass that is due runs:
\* SteadyReconcile is enabled exactly when ReconcileDue holds and ends it, so
\* the last conjunct is weak fairness of SteadyReconcile.
SpecSteady ==
    /\ SteadyInit
    /\ [][SteadyNext]_vars
    /\ WF_vars(SteadyElapse)
    /\ WF_vars(SteadyDelayedValveClose)
    /\ []<>(~ReconcileDue)

(***************************************************************************)
(* SpecRetry: three zones whose readings do not change, valves that may    *)
(* not follow a command, the periodic control pass                         *)
(***************************************************************************)
\* The user switches the controller to Heat, once; a valve may stay as it is.
RetrySetHeat ==
    /\ hvac_mode = "off"
    /\ SetHvacMode("heat")

\* async_reconcile, once in every reconciliation interval.
RetryReconcile ==
    /\ ReconcileDue
    /\ Reconcile

RetryNext ==
    \/ RetrySetHeat
    \/ RetryReconcile
    \/ DelayedValveClose
    \/ SteadyElapse

\* Time passes, a task whose sleep is over and that is not cancelled runs,
\* and a pass that is due runs.
SpecRetry ==
    /\ SteadyInit
    /\ [][RetryNext]_vars
    /\ WF_vars(SteadyElapse)
    /\ WF_vars(DelayedValveClose)
    /\ []<>(~ReconcileDue)

(***************************************************************************)
(* SpecSend: the setpoint update split at its service call                 *)
(***************************************************************************)
\* The setpoint updates suspended in their service call.
Sending == {id \in OpIds : main_updates[id].pc = "send"}

\* _async_update_main_climate up to its await (climate.py lines 553-619):
\* what it read and decided; nothing is sent or cached before the call.
BeforeSend(update) == [update EXCEPT !.send = FALSE]

\* The update reaches its service call (climate.py lines 619-628) and is
\* suspended there; neither _update_lock nor a flag is consulted on the way
\* (lines 550-557).
StartUpdate(update) ==
    IF update.send
    THEN /\ Sending # OpIds
         /\ LET free == OpIds \ Sending
                id == CHOOSE i \in free : \A j \in free : i <= j
            IN  main_updates' =
                    [main_updates EXCEPT
                        ![id] = [pc |-> "send",
                                 candidate |-> update.candidate]]
    ELSE UNCHANGED main_updates

\* async_sensor_changed (climate.py lines 312-316): a task for a control pass
\* and a task for a setpoint update.
SendSensorChanged(z, t) ==
    /\ z \in Configured
    /\ t # zoneTemp[z]
    /\ LET temps == [zoneTemp EXCEPT ![z] = t]
           update == UpdateMainClimate(hvac_mode, temps, mainClimate)
       IN  /\ Handle("sensor_changed", hvac_mode, temps, mainClimate,
                     ControlValves(hvac_mode, temps), BeforeSend(update),
                     <<>>)
           /\ StartUpdate(update)
    /\ UNCHANGED <<timerVars, gateVars>>

\* async_reconcile (climate.py lines 355-372).
SendReconcile ==
    /\ LET update == UpdateMainClimate(hvac_mode, zoneTemp, mainClimate)
       IN  /\ Handle("reconcile", hvac_mode, zoneTemp, mainClimate,
                     ControlValves(hvac_mode, zoneTemp), BeforeSend(update),
                     <<>>)
           /\ StartUpdate(update)
    /\ UNCHANGED <<timerVars, gateVars>>

\* async_set_hvac_mode (climate.py lines 461-487).
SendSetHvacMode(mode) ==
    /\ mode \in AvailableModes
    /\ LET update == UpdateMainClimate(mode, zoneTemp, mainClimate)
       IN  /\ Handle("set_hvac_mode", mode, zoneTemp, mainClimate,
                     IF mode = "off" THEN TurnOffAllValves
                     ELSE IF mode = "heat" THEN ControlValves(mode, zoneTemp)
                     ELSE ControlValvesForCooling(mode),
                     BeforeSend(update), <<>>)
           /\ StartUpdate(update)
    /\ UNCHANGED <<timerVars, gateVars>>

\* The service call of a suspended update returns or raises (climate.py lines
\* 619-636): the candidate is cached when it returns.
UpdateSent(id) ==
    /\ main_updates[id].pc = "send"
    /\ \E ok \in BOOLEAN :
          last_main_target' =
              IF ok THEN main_updates[id].candidate ELSE last_main_target
    /\ main_updates' = [main_updates EXCEPT ![id] = NoSend]
    /\ act' = [Idle EXCEPT !.op = "update_main_climate",
                           !.sent = <<main_updates[id].candidate>>]
    /\ UNCHANGED <<aggVars, configVars, hvac_mode, valve_no_reopen_until,
                   delayed_valve_close_task, delayed_close_tasks, hostVars,
                   closeHold, reopenHold, timerVars, gateVars>>

\* The readings of z1 here: below its band, and inside it.
SendTemps == {1900, 2040}

\* One zone and a main climate entity whose target cannot be read, or is read
\* as 19.95.
SendInit ==
    /\ ControllerAtRest
    /\ self_zones = <<"z1">>
    /\ main_climate_entity = TRUE
    /\ mainClimate \in {MainClimateState("unavailable", None),
                        MainClimateState("heat", 1995)}
    /\ zoneTemp = FirstReadings
    /\ aggIn = NoArgs
    /\ aggOut = NotCalled
    /\ aggPrev = NoPrev

SendNext ==
    \/ \E t \in SendTemps : SendSensorChanged("z1", t)
    \/ SendReconcile
    \/ \E mode \in {"off", "heat"} : SendSetHvacMode(mode)
    \/ \E id \in OpIds : UpdateSent(id)

SpecSend == SendInit /\ [][SendNext]_vars

(***************************************************************************)
(* SpecFloor: two zones, a main climate entity, obedient valves            *)
(***************************************************************************)
\* The valve entities report what they were told.
Obeys == valveOn' = Obeyed(act'.batches)

FloorInit ==
    /\ ControllerAtRest
    /\ self_zones = <<"z1", "z2">>
    /\ main_climate_entity = TRUE
    /\ mainClimate = MainClimateState("heat", 1995)
    /\ zoneTemp = FirstReadings
    /\ aggIn = NoArgs
    /\ aggOut = NotCalled
    /\ aggPrev = NoPrev

FloorNext ==
    \/ \E z \in {"z1", "z2"} :
          \E t \in SensorTemps[z] : SensorChanged(z, t) /\ Obeys
    \/ Reconcile /\ Obeys
    \/ \E mode \in {"off", "heat"} : SetHvacMode(mode) /\ Obeys
    \/ \E new_state \in GateClimateStates :
          MainClimateChanged(new_state) /\ Obeys
    \/ DelayedValveClose /\ Obeys
    \/ Elapse

SpecFloor == FloorInit /\ [][FloorNext]_vars

(***************************************************************************)
(* What the claims about the per-zone decision read                        *)
(***************************************************************************)
\* The zones that report a temperature and have the status given in a mode.
WithStatus(mode, temps, status) ==
    {z \in Configured :
        /\ temps[z] # None
        /\ ZoneStatus(mode, ZoneView(z, temps)) = status}

\* What the rule for Satisfied zones asks for: open in Holding; in Active,
\* open when the zone's target is on the setpoint's far side.
SatisfiedExpected(mode, z, temps) ==
    LET agg == DesiredMainTarget(mode, temps)
    IN  IF agg.is_holding_mode THEN TRUE
        ELSE IF mode = "heat" THEN zoneTarget[z] >= agg.desired_main
        ELSE zoneTarget[z] <= agg.desired_main

\* The upper bound of a zone's satisfaction band in Heat.
UpperBound(z) ==
    SatisfactionBounds("heat", zoneTarget[z], target_temp_offset[z],
                       target_temp_offset_closing[z])[2]

\* The zones the Heat anticipation applies to in a pass: the valve was open
\* and the temperature is within physical_close_anticipation of the upper
\* bound.
Anticipated ==
    {z \in act.seen.open_before :
        /\ hvac_mode = "heat"
        /\ zoneTemp[z] # None
        /\ zoneTemp[z] >= UpperBound(z) - physical_close_anticipation}

\* The zone as a pass reads it, with its valve closed.
ClosedView(z, temps) == [ZoneView(z, temps) EXCEPT !.is_valve_open = FALSE]


(***************************************************************************)
(* Claims about the aggregation (SpecAgg)                                  *)
(***************************************************************************)
\* The positions of the drawn zones that report a temperature.
Reporting == {i \in 1..Len(aggIn.zones) : aggIn.zones[i].current_temp # None}

\* Underheated in Heat (current < target - opening) or Overheated in Cool
\* (current > target + opening): the zone needs the mode's action.
NeedsModeAction(zone, mode) ==
    /\ zone.current_temp # None
    /\ IF mode = "heat"
       THEN zone.current_temp < zone.target_temp - zone.target_offset
       ELSE zone.current_temp > zone.target_temp + zone.target_offset

\* Overheated in Heat (current > target + closing) or Undercooled in Cool
\* (current < target - closing): the zone is beyond its band on the side the
\* mode's action makes worse.
WrongSide(zone, mode) ==
    /\ zone.current_temp # None
    /\ IF mode = "heat"
       THEN zone.current_temp > zone.target_temp + zone.target_offset_closing
       ELSE zone.current_temp < zone.target_temp - zone.target_offset_closing

Needing == {i \in Reporting : NeedsModeAction(aggIn.zones[i], aggIn.hvac_mode)}

\* target + factor * (target - current) in Heat, target - factor * (current -
\* target) in Cool, times 100.
Contribution(zone, mode, factor) ==
    IF mode = "heat"
    THEN 100 * zone.target_temp + factor * (zone.target_temp - zone.current_temp)
    ELSE 100 * zone.target_temp - factor * (zone.current_temp - zone.target_temp)

SeqRange(s) == {s[i] : i \in 1..Len(s)}

RECURSIVE SumTargets(_)
SumTargets(I) ==
    IF I = {} THEN 0
    ELSE LET i == CHOOSE j \in I : TRUE
         IN  aggIn.zones[i].target_temp + SumTargets(I \ {i})

MinTarget(I) ==
    CHOOSE t \in {aggIn.zones[i].target_temp : i \in I} :
        \A i \in I : t <= aggIn.zones[i].target_temp

MaxTarget(I) ==
    CHOOSE t \in {aggIn.zones[i].target_temp : i \in I} :
        \A i \in I : t >= aggIn.zones[i].target_temp

\* C1: in both aggregations (compute_main_target and the control loop's
\* _calculate_desired_main_target) a zone that is Overheated in Heat mode or
\* Undercooled in Cool mode is never in the contribution set, and when no
\* reporting zone needs the mode's action the regime is Holding.
C1_WrongSideNeverContributes ==
    aggOut.done =>
        /\ \A i \in Reporting :
              WrongSide(aggIn.zones[i], aggIn.hvac_mode) =>
                 /\ aggIn.zones[i].name \notin SeqRange(aggOut.core_needing)
                 /\ aggIn.zones[i].name \notin SeqRange(aggOut.calc_needing)
        /\ (Reporting # {} /\ Needing = {}) =>
              /\ aggOut.core.is_holding_mode
              /\ aggOut.calc.is_holding_mode

\* C7: when at least one zone needs action, compute_main_target returns the
\* regime Active and, before rounding and clamping, the maximum (Heat) or the
\* minimum (Cool) over the needing zones of their contributions; the returned
\* setpoint is that value rounded to a tenth and clamped.
C7_ActiveSetpoint ==
    (aggOut.done /\ Needing # {}) =>
        /\ ~aggOut.core.is_holding_mode
        /\ \E i \in Needing :
              aggOut.core_raw.num * 100 =
                 aggOut.core_raw.den
                    * Contribution(aggIn.zones[i], aggIn.hvac_mode,
                                   aggIn.compensation_factor)
        /\ \A j \in Needing :
              IF aggIn.hvac_mode = "heat"
              THEN aggOut.core_raw.num * 100 >=
                      aggOut.core_raw.den
                         * Contribution(aggIn.zones[j], aggIn.hvac_mode,
                                        aggIn.compensation_factor)
              ELSE aggOut.core_raw.num * 100 <=
                      aggOut.core_raw.den
                         * Contribution(aggIn.zones[j], aggIn.hvac_mode,
                                        aggIn.compensation_factor)
        /\ aggOut.core.desired_main =
              Clamp(main_min_temp, main_max_temp,
                    Round1(aggOut.core_raw.num, aggOut.core_raw.den))

\* Two zones need action with different contributions, and a third kind of
\* zone (reporting, not needing) is present or not: the larger one is chosen.
C7_Witness ==
    /\ aggOut.done
    /\ aggIn.hvac_mode = "heat"
    /\ Cardinality(Needing) = 2
    /\ \E i, j \in Needing :
          Contribution(aggIn.zones[i], "heat", aggIn.compensation_factor) <
             Contribution(aggIn.zones[j], "heat", aggIn.compensation_factor)
    /\ ~aggOut.core.is_holding_mode

\* C8: when no zone needs action and some zone reports a temperature,
\* compute_main_target returns the regime Holding and, before rounding and
\* clamping, min + (avg - min) * (w / 50) for w <= 50 and
\* avg + (max - avg) * ((w - 50) / 50) for w > 50 over the reporting zones'
\* targets: the minimum at w = 0, the mean at w = 50, the maximum at w = 100.
C8_HoldingSetpoint ==
    (aggOut.done /\ Needing = {} /\ Reporting # {}) =>
        LET n == Cardinality(Reporting)
            total == SumTargets(Reporting)
            lo == MinTarget(Reporting)
            hi == MaxTarget(Reporting)
            w == aggIn.all_satisfied_mode
            raw == aggOut.core_raw
        IN  /\ aggOut.core.is_holding_mode
            /\ w <= 50 =>
                  raw.num * 50 * n = raw.den * (50 * n * lo + (total - n * lo) * w)
            /\ w > 50 =>
                  raw.num * 50 * n =
                     raw.den * (50 * total + (n * hi - total) * (w - 50))
            /\ w = 0 => raw.num = lo * raw.den
            /\ w = 50 => raw.num * n = total * raw.den
            /\ w = 100 => raw.num = hi * raw.den
            /\ aggOut.core.desired_main =
                  Clamp(main_min_temp, main_max_temp, Round1(raw.num, raw.den))

\* Two reporting zones with different targets hold, one of them not reporting
\* a need, with the slider in the lower half but at neither end.
C8_Witness ==
    /\ aggOut.done
    /\ Needing = {}
    /\ Cardinality(Reporting) = 2
    /\ MinTarget(Reporting) < MaxTarget(Reporting)
    /\ aggIn.all_satisfied_mode = 25
    /\ aggOut.core.is_holding_mode

\* C9: for fixed zones in the Holding regime the setpoint compute_main_target
\* returns does not decrease when the slider is raised, also across w = 50.
C9_HoldingMonotonic ==
    (aggOut.done /\ aggPrev # NoPrev /\ aggOut.core.is_holding_mode) =>
        /\ aggPrev.all_satisfied_mode < aggIn.all_satisfied_mode
        /\ aggPrev.core.is_holding_mode
        /\ aggPrev.core.desired_main <= aggOut.core.desired_main

\* The slider went from the lower half to the upper half and the setpoint
\* rose.
C9_Witness ==
    /\ aggOut.done
    /\ aggPrev # NoPrev
    /\ aggOut.core.is_holding_mode
    /\ aggPrev.all_satisfied_mode <= 50
    /\ aggIn.all_satisfied_mode > 50
    /\ aggPrev.core.desired_main < aggOut.core.desired_main

\* C10: with non-negative offsets every zone has lower <= upper, in Heat
\* (lower = target - opening, upper = target + closing) and in Cool
\* (lower = target - closing, upper = target + opening), for the bounds the
\* control loop uses and for the rounded bounds compute_zone_targets exposes.
C10_BoundsOrdered ==
    aggOut.done =>
        \A i \in 1..Len(aggIn.zones) :
            LET zone == aggIn.zones[i]
                b == aggOut.bounds[i]
            IN  /\ zone.target_offset >= 0 /\ zone.target_offset_closing >= 0
                /\ b[1] <= b[2]
                /\ aggIn.hvac_mode = "heat" =>
                      /\ b[1] = zone.target_temp - zone.target_offset
                      /\ b[2] = zone.target_temp + zone.target_offset_closing
                /\ aggIn.hvac_mode = "cool" =>
                      /\ b[1] = zone.target_temp - zone.target_offset_closing
                      /\ b[2] = zone.target_temp + zone.target_offset
                /\ aggOut.zone_targets[i].lower_bound
                      <= aggOut.zone_targets[i].upper_bound

\* Cool mode, a zone with a positive closing offset and a zero opening
\* offset, and one with the offsets the other way round.
C10_Witness ==
    /\ aggOut.done
    /\ aggIn.hvac_mode = "cool"
    /\ \E i \in 1..Len(aggIn.zones) :
          /\ aggIn.zones[i].target_offset = 0
          /\ aggIn.zones[i].target_offset_closing > 0
          /\ aggOut.bounds[i][1] < aggOut.bounds[i][2]
    /\ \E i \in 1..Len(aggIn.zones) :
          /\ aggIn.zones[i].target_offset > 0
          /\ aggIn.zones[i].target_offset_closing = 0
          /\ aggOut.zone_targets[i].lower_bound
                < aggOut.zone_targets[i].upper_bound


(***************************************************************************)
(* Claims about the valve path (Spec)                                      *)
(***************************************************************************)
\* C3: in every control pass all open commands are issued before any close
\* command; when the pass opens a valve while the number of open valves is at
\* or under the floor it issues no close command, and the closes it deferred
\* are the ones its delayed close task holds for the full transition delay.
C3_OpensBeforeCloses ==
    act.pass =>
        /\ \A i, j \in 1..Len(act.batches) :
               (/\ act.batches[i].service = "turn_on"
                /\ act.batches[j].service = "turn_off") => i < j
        /\ (act.at_floor /\ Commanded(act.batches, "turn_on") # {})
               => Commanded(act.batches, "turn_off") = {}
        /\ act.deferred # {}
               => /\ Commanded(act.batches, "turn_off") = {}
                  /\ delayed_valve_close_task =
                         [valves |-> act.deferred,
                          left |-> valve_transition_delay]

\* A pass above the floor that opened one valve and closed another.
C3_Witness ==
    /\ act.pass
    /\ ~act.at_floor
    /\ Commanded(act.batches, "turn_on") # {}
    /\ Commanded(act.batches, "turn_off") # {}

\* C4: once a control pass has deferred the close of a valve, no control pass
\* and no delayed close issues a close command for that valve before the full
\* transition delay has passed since that pass.
C4_NoCloseWithinDelay ==
    (act.pass \/ act.op = "delayed_valve_close") => act.held = {}

\* C6: a control pass that finds a zone Underheated with its valve closed,
\* before the transition delay has passed since a pass recorded the valve's
\* early close, does not decide the zone open.
C6_NoReopenInsideWindow ==
    act.pass => act.in_window \cap act.decided_open = {}

\* A pass found such a zone, while it decided another zone open.
C6_Witness ==
    /\ act.pass
    /\ act.in_window # {}
    /\ act.decided_open # {}

\* C11: a control pass run a second time on the same readings, targets, valve
\* states and mode, with the suppression memory the first run left and no
\* entry's time passing in between, decides the same zones open; the
\* aggregation reads none of the controller's memory, so its setpoint and
\* regime are those of the first run.
C11_SecondRunSame ==
    act.pass => act.seen.decided_again = act.decided_open

\* A pass that recorded an early close of one zone and decided another open.
C11_Witness ==
    /\ act.pass
    /\ act.decided_open # {}
    /\ \E z \in Zones \ act.decided_open :
          /\ valve_no_reopen_until[z] = valve_transition_delay
          /\ reopenHold[z] = valve_transition_delay

\* C16: setting the controller's mode to Off issues a close command for every
\* valve of a non-fallback zone and for no valve of a fallback zone.
C16_OffClosesAllButFallback ==
    (act.op = "set_hvac_mode" /\ hvac_mode = "off") =>
        Commanded(act.batches, "turn_off") = Configured \ fallback_zone_names

\* C18: in Heat mode, after the minimum-open rule of a control pass
\* valves_to_turn_on has at least min(min_valves_open, number of configured
\* valves) members: it is the decided zones' valves and the promoted ones,
\* valves are promoted only while the decided ones are fewer than the floor,
\* and no promoted valve stays in valves_to_turn_off.
C18_FloorMet ==
    (act.pass /\ hvac_mode = "heat") =>
        /\ Cardinality(act.seen.valves_to_turn_on)
               >= Min2(min_valves_open, Len(self_zones))
        /\ act.seen.valves_to_turn_on = act.decided_open \cup act.seen.promoted
        /\ act.seen.promoted \cap act.decided_open = {}
        /\ Cardinality(act.decided_open) >= min_valves_open
               => act.seen.promoted = {}
        /\ act.seen.promoted \cap act.seen.valves_to_turn_off = {}
        /\ act.seen.valves_to_turn_off =
               Configured \ act.seen.valves_to_turn_on

\* A Heat pass that decided no zone open and promoted a valve.
C18_Witness ==
    /\ act.pass
    /\ hvac_mode = "heat"
    /\ act.decided_open = {}
    /\ act.seen.promoted # {}

\* The zone views of the configured zones other than z.
ViewsWithout(z) == SelectSeq(ZoneViews(zoneTemp), LAMBDA view : view.name # z)

\* C19: a zone without a current temperature takes no part in a control pass:
\* the aggregation is the one of the other zones alone (its target enters
\* neither the contributions nor the Holding min/avg/max), and no decision is
\* taken for it, while the pass runs to its scheduling.
C19_NoReadingNoPart ==
    act.pass =>
        \A z \in Configured :
            zoneTemp[z] = None =>
                /\ z \notin act.decided_open
                /\ z \notin act.seen.decided_again
                /\ z \notin act.seen.needing
                /\ DesiredMainTarget(hvac_mode, zoneTemp) =
                      calculate_desired_main_target(
                          ViewsWithout(z), hvac_mode, compensation_factor,
                          all_satisfied_mode, main_min_temp, main_max_temp)

\* A pass in the Holding regime while one zone, whose target differs from the
\* others', reports nothing.
C19_Witness ==
    /\ act.pass
    /\ \E z \in Configured :
          /\ zoneTemp[z] = None
          /\ \E y \in Configured : zoneTarget[y] # zoneTarget[z]
    /\ DesiredMainTarget(hvac_mode, zoneTemp).is_holding_mode
    /\ act.decided_open # {}

(***************************************************************************)
(* Claims about the setpoint path (SpecSetpoint)                           *)
(***************************************************************************)
\* C2: every value an operation sends to the main climate is a whole number
\* of tenths of a degree inside [main_min_temp, main_max_temp].
C2_SentRoundedAndClamped ==
    \A i \in 1..Len(act.sent) :
        /\ act.sent[i] % 10 = 0
        /\ main_min_temp <= act.sent[i]
        /\ act.sent[i] <= main_max_temp

\* C5: a setpoint update that reads the main climate's target and finds its
\* candidate less than the change threshold away from it sends nothing.
C5_NoSendNearReadback ==
    (act.update.ran /\ act.update.near_readback)
        => ~act.update.send /\ act.sent = <<>>

\* Such an update, whose candidate is the threshold or more away from the
\* cached target or has no cached target to compare with.
C5_Witness ==
    /\ act.update.ran
    /\ act.update.near_readback
    /\ act.update.far_from_cached
    /\ last_main_target # None

\* C12: a setpoint update that finds no zone reporting a temperature gets the
\* setpoint None with the holding flag false from the aggregation (as
\* compute_main_target returns on the same zones), sends nothing to the main
\* climate and leaves the cached last-sent setpoint as it was.
C12_NoReadingNoSend ==
    [][(/\ act'.update.ran
        /\ \A z \in Configured : zoneTemp'[z] = None)
          => /\ act'.update.candidate = None
             /\ ~act'.update.is_holding_mode
             /\ compute_main_target(ZoneViews(zoneTemp'), hvac_mode',
                                    compensation_factor, all_satisfied_mode,
                                    main_min_temp, main_max_temp)
                   = [desired_main |-> None, is_holding_mode |-> FALSE]
             /\ ~act'.update.send
             /\ act'.sent = <<>>
             /\ last_main_target' = last_main_target]_vars

\* Such an update of a controller that has a cached setpoint.
C12_Witness ==
    /\ act.update.ran
    /\ \A z \in Configured : zoneTemp[z] = None
    /\ last_main_target # None

\* C20: a control pass decides a zone that needs the mode's action
\* (Underheated in Heat, Overheated in Cool) open, unless its valve is closed
\* and its suppression entry's time has not passed, and then it decides it
\* not open: in Heat and in Cool alike.
C20_NeedingOpensUnlessSuppressed ==
    act.pass =>
        act.decided_open \cap act.seen.needing =
           act.seen.needing \ act.seen.suppressed


\* The zone statuses on the side a mode does not act on.
WrongSideStatus(mode) == IF mode = "heat" THEN "overheated" ELSE "undercooled"

\* The setpoints a decision may be handed: none, and values under, at and
\* over the zone targets.
AnySetpoints == {None, 1900, 2000, 2050, 2200}

\* The suppression entries a zone may have.
AnyEntries == {NoEntry} \cup (0..valve_transition_delay)

\* C21: a zone that is Overheated in Heat or Undercooled in Cool is decided
\* closed whatever the regime, the setpoint, the valve's state and the zone's
\* suppression entry, and the decision leaves the entry as it was; a control
\* pass does not decide such a zone open and does not change its entry.
C21_WrongSideClosed ==
    [][act'.pass =>
         \A z \in Configured :
            (/\ zoneTemp'[z] # None
             /\ ZoneStatus(hvac_mode', ZoneView(z, zoneTemp')) =
                    WrongSideStatus(hvac_mode'))
            => /\ z \notin act'.decided_open
               /\ valve_no_reopen_until'[z] = valve_no_reopen_until[z]
               /\ \A is_currently_open, is_holding_mode \in BOOLEAN :
                     \A setpoint \in AnySetpoints, entry \in AnyEntries :
                        Decide(hvac_mode',
                               [ZoneView(z, zoneTemp') EXCEPT
                                   !.is_valve_open = is_currently_open],
                               entry, setpoint, is_holding_mode)
                           = Decision(FALSE, entry, FALSE)]_vars

\* A pass in Cool found the zone Undercooled while its valve was open and it
\* had a suppression entry.
C21_Witness ==
    /\ act.pass
    /\ hvac_mode = "cool"
    /\ zoneTemp["z1"] # None
    /\ ZoneStatus("cool", ZoneView("z1", zoneTemp)) = "undercooled"
    /\ valve_no_reopen_until["z1"] # NoEntry
    /\ Commanded(act.batches, "turn_off") = {"z1"}

\* The lower bound of a zone's satisfaction band in Cool.
LowerBoundCool(z) ==
    SatisfactionBounds("cool", zoneTarget[z], target_temp_offset[z],
                       target_temp_offset_closing[z])[1]

\* C24: in Cool, a Satisfied zone whose valve is open and whose decision so
\* far is open is decided closed when its temperature is at or under lower +
\* physical_close_anticipation, and its suppression entry is set to the full
\* transition delay when the temperature is still over the lower bound.
C24_CoolAnticipation ==
    (act.pass /\ hvac_mode = "cool") =>
        \A z \in WithStatus("cool", zoneTemp, "satisfied")
                  \cap act.seen.open_before :
           (/\ SatisfiedExpected("cool", z, zoneTemp)
            /\ zoneTemp[z] <= LowerBoundCool(z) + physical_close_anticipation)
           => /\ z \notin act.decided_open
              /\ zoneTemp[z] > LowerBoundCool(z) =>
                    valve_no_reopen_until[z] = valve_transition_delay

(***************************************************************************)
(* Claims about the debounce and the teardown (SpecDebounce)               *)
(***************************************************************************)
\* C14: of a burst of zone target edits in Heat or Cool, each less than the
\* quiet period after the one before, the debounce tasks run at most one
\* control pass and at most one setpoint update, none of them before the
\* quiet period has passed since the burst's last edit: the task of every
\* earlier edit of the burst is cancelled without running.
C14_OneRunPerBurst ==
    /\ burst.valve_runs <= 1
    /\ burst.main_runs <= 1
    /\ ~burst.early
    /\ (/\ act.op \in {"delayed_valve_control",
                        "delayed_main_climate_update"}
        /\ burst.valve_runs + burst.main_runs > 0)
          => burst.since >= zone_target_change_delay

\* C15: once async_will_remove_from_hass has returned no debounce task is
\* left in its sleep and no deferred close is pending, and none of them runs
\* a control pass, a setpoint update or a valve close.
C15_NothingPendingAfterTeardown ==
    removed =>
        /\ \A id \in TimerIds :
               /\ valve_timers[id].status # "sleeping"
               /\ main_timers[id].status # "sleeping"
        /\ delayed_valve_close_task = NoTask
        /\ act.op \notin {"delayed_valve_control",
                           "delayed_main_climate_update",
                           "delayed_valve_close"}


(***************************************************************************)
(* Claims about the gate (SpecGate)                                        *)
(***************************************************************************)
\* The operations inside the gate: past the lock and not yet out of it.
InSection == {id \in OpIds : ops[id].pc = "section"}

\* C13: at most one valve operation (control pass, turn-off-all-valves,
\* cooling setup, close-except-fallback) is between taking the lock and
\* releasing it at any time, and the lock is held while one is; an operation
\* started meanwhile waits in line.
C13_OneInSection ==
    /\ Cardinality(InSection) <= 1
    /\ InSection # {} => update_lock.locked
    /\ \A id \in OpIds :
          ops[id].pc = "waiting" <=>
             \E i \in 1..Len(update_lock.waiters) : update_lock.waiters[i] = id

\* One operation is inside the gate while another waits for the lock.
C13_Witness ==
    /\ InSection # {}
    /\ \E id \in OpIds : ops[id].pc = "waiting"

\* C17: an operation in which actuator calls raised has still issued every
\* batch it planned, all valves of each batch included, and a control pass
\* has still created the delayed close for the closes it deferred; it has
\* left the gate and released the lock.
C17_FailureDoesNotAbort ==
    act.gate.exited =>
        /\ act.batches = act.gate.planned
        /\ act.deferred = act.gate.planned_deferred
        /\ act.deferred # {} =>
               delayed_valve_close_task =
                  [valves |-> act.deferred, left |-> valve_transition_delay]
        /\ ~update_lock.locked
        /\ InSection = {}

\* A control pass whose open batch of two valves had one call raise, and which
\* had closes to issue or to defer after it.
C17_Witness ==
    /\ act.gate.exited
    /\ act.pass
    /\ Cardinality(Commanded(act.gate.planned, "turn_on")) >= 2
    /\ act.gate.failed \cap Commanded(act.gate.planned, "turn_on") # {}
    /\ Commanded(act.gate.planned, "turn_on") \ act.gate.failed # {}
    /\ \/ Commanded(act.gate.planned, "turn_off") # {}
       \/ act.gate.planned_deferred # {}


(***************************************************************************)
(* Claims about the per-zone decision (Spec)                               *)
(***************************************************************************)
\* C22: for a Satisfied zone the decision before anticipation is open in
\* Holding and, in Active, zoneTarget >= setpoint in Heat and zoneTarget <=
\* setpoint in Cool, the setpoint being the rounded and clamped one of the
\* same pass; a Satisfied zone in Active always has a setpoint.  A pass
\* decides so for every Satisfied zone the anticipation does not apply to.
C22_SatisfiedDecision ==
    /\ act.pass =>
          \A z \in WithStatus(hvac_mode, zoneTemp, "satisfied") \ Anticipated :
             z \in act.decided_open
                <=> SatisfiedExpected(hvac_mode, z, zoneTemp)
    /\ \A mode \in {"heat", "cool"} :
          \A z \in WithStatus(mode, zoneTemp, "satisfied") :
             LET agg == DesiredMainTarget(mode, zoneTemp)
             IN  /\ agg.is_holding_mode \/ agg.desired_main # None
                 /\ Decide(mode, ClosedView(z, zoneTemp),
                           valve_no_reopen_until[z], agg.desired_main,
                           agg.is_holding_mode).should_open
                       = SatisfiedExpected(mode, z, zoneTemp)

\* A pass in Active that decided one Satisfied zone open, its target being at
\* or over the setpoint, and another not, its target being under it.
C22_Witness ==
    /\ act.pass
    /\ ~DesiredMainTarget(hvac_mode, zoneTemp).is_holding_mode
    /\ \E z \in WithStatus(hvac_mode, zoneTemp, "satisfied") :
          /\ z \in act.decided_open
          /\ zoneTarget[z] >= DesiredMainTarget(hvac_mode, zoneTemp).desired_main
    /\ \E z \in WithStatus(hvac_mode, zoneTemp, "satisfied") :
          /\ z \notin act.decided_open
          /\ zoneTarget[z] < DesiredMainTarget(hvac_mode, zoneTemp).desired_main

\* The temperatures around a zone's anticipation threshold and upper bound.
ProbeTemps(z) ==
    {UpperBound(z) - physical_close_anticipation - 1,
     UpperBound(z) - physical_close_anticipation,
     UpperBound(z) - 1, UpperBound(z)}

\* The zone as a pass reads it, at another temperature and with its valve
\* open.
OpenViewAt(z, t) ==
    [ZoneView(z, zoneTemp) EXCEPT !.current_temp = t, !.is_valve_open = TRUE]

\* C23: in Heat, a Satisfied zone whose valve is open and whose decision so
\* far is open is decided closed iff its temperature is at or over upper -
\* physical_close_anticipation; its suppression entry is set to the full
\* transition delay iff it was so overridden and its temperature is under the
\* upper bound; a pass writes no other suppression entry.
C23_AnticipationOverride ==
    /\ act.pass =>
          LET base_open ==
                  {z \in WithStatus(hvac_mode, zoneTemp, "satisfied")
                            \cap act.seen.open_before :
                      SatisfiedExpected(hvac_mode, z, zoneTemp)}
          IN  /\ hvac_mode = "heat" =>
                    \A z \in base_open :
                       z \notin act.decided_open <=> z \in Anticipated
              /\ act.seen.early_closed =
                    {z \in base_open \cap Anticipated :
                        zoneTemp[z] < UpperBound(z)}
              /\ \A z \in Configured :
                    IF z \in act.seen.early_closed
                    THEN valve_no_reopen_until[z] = valve_transition_delay
                    ELSE valve_no_reopen_until[z] \in
                            {NoEntry} \cup (0..valve_transition_delay)
    /\ \A z \in Configured : \A t \in ProbeTemps(z) :
          \A entry \in AnyEntries :
             ZoneStatus("heat", OpenViewAt(z, t)) = "satisfied" =>
                Decide("heat", OpenViewAt(z, t), entry, None, TRUE) =
                   IF t < UpperBound(z) - physical_close_anticipation
                   THEN Decision(TRUE, entry, FALSE)
                   ELSE IF t < UpperBound(z)
                   THEN Decision(FALSE, valve_transition_delay, TRUE)
                   ELSE Decision(FALSE, entry, FALSE)

\* A Holding pass that closed one open Satisfied zone early and wrote its
\* entry, and kept another open Satisfied zone, under its threshold, open.
C23_Witness ==
    /\ act.pass
    /\ hvac_mode = "heat"
    /\ act.seen.early_closed # {}
    /\ \E z \in act.seen.open_before \cap act.decided_open :
          /\ ZoneStatus("heat", ZoneView(z, zoneTemp)) = "satisfied"
          /\ z \notin Anticipated

\* C25: a pass that finds a valve closed while the time of the suppression
\* entry an early close wrote for it has not passed does not decide the zone
\* open, whether the zone is Underheated or Satisfied and whether the regime
\* is Active or Holding.
C25_NoReopenBeforeTimestamp ==
    act.pass =>
        \A z \in Configured \ act.seen.open_before :
           (/\ valve_no_reopen_until[z] # NoEntry
            /\ valve_no_reopen_until[z] > 0
            /\ reopenHold[z] > 0)
           => z \notin act.decided_open


\* C27: when the floor promotes valves, the fallback zones' valves go first:
\* a pass that promotes the valve of a zone that is no fallback zone has
\* promoted every fallback zone's valve it had not decided open.
C27_FallbackPromotedFirst ==
    act.pass =>
        /\ act.seen.promoted \cap act.decided_open = {}
        /\ act.seen.promoted \ fallback_zone_names # {} =>
              (Configured \cap fallback_zone_names) \ act.decided_open
                 \subseteq act.seen.promoted

\* A pass that decided no zone open promoted the fallback zone's valve and
\* left the other valves, which were open, to be closed.
C27_Witness ==
    /\ act.pass
    /\ act.decided_open = {}
    /\ act.seen.promoted = Configured \cap fallback_zone_names
    /\ act.seen.promoted # {}
    /\ (Configured \ fallback_zone_names) \cap act.seen.open_before # {}

\* valves_actually_turning_off of a pass: the valves it found open and does
\* not want open.
Closing == act.seen.valves_to_turn_off \cap act.seen.open_before

\* valves_actually_turning_on of a pass: the valves it found closed and wants
\* open.
Opening == act.seen.valves_to_turn_on \ act.seen.open_before

\* C28: a pass that has an open valve to close defers its closes, all of them
\* as one delayed task, iff it opens a closed valve and found no more valves
\* open than the floor; otherwise it issues every close itself.
C28_DeferIffOpeningAtFloor ==
    act.pass =>
        IF /\ Closing # {}
           /\ Opening # {}
           /\ Cardinality(act.seen.open_before) <= min_valves_open
        THEN /\ act.deferred = Closing
             /\ Commanded(act.batches, "turn_off") = {}
             /\ delayed_valve_close_task =
                    [valves |-> Closing, left |-> valve_transition_delay]
        ELSE /\ act.deferred = {}
             /\ Commanded(act.batches, "turn_off") = Closing
             /\ delayed_valve_close_task = NoTask

\* A pass that found as many valves open as the floor asks for, opened another
\* and deferred the close of the open one.
C28_Witness ==
    /\ act.pass
    /\ Cardinality(act.seen.open_before) = min_valves_open
    /\ Opening # {}
    /\ act.deferred # {}
    /\ act.deferred = Closing

(***************************************************************************)
(* Claims about the steady state (SpecSteady)                              *)
(***************************************************************************)
\* C26: with readings, targets, mode and configuration constant and every
\* command obeyed, the periodic control passes reach a point after which no
\* open and no close command is issued for any valve.
C26_CommandsCease == <>[](act.batches = <<>>)

(***************************************************************************)
(* Claims about the deferred close (Spec)                                  *)
(***************************************************************************)
\* The deferred close a control pass creates for the closes it defers
\* (climate.py lines 1047-1056).
OwnTask ==
    Scheduled({}, IF act.deferred # {}
                  THEN [valves |-> act.deferred,
                        left |-> valve_transition_delay]
                  ELSE NoTask)

\* C29: at most one deferred close is pending at any time, it is the one the
\* field refers to, and a control pass that reached scheduling leaves no
\* deferred close pending but the one it created itself: the one an earlier
\* pass left is cancelled and never issues its closes.
C29_OneDeferredClose ==
    /\ Cardinality(delayed_close_tasks) <= 1
    /\ delayed_close_tasks = Scheduled({}, delayed_valve_close_task)
    /\ act.pass => delayed_close_tasks = OwnTask

\* A control pass has cancelled the deferred close an earlier pass left
\* pending and has deferred a close of its own.
C29_Witness ==
    /\ act.pass
    /\ act.seen.superseded # {}
    /\ act.deferred # {}
    /\ act.deferred # act.seen.superseded

(***************************************************************************)
(* Claims about the setpoint update (SpecSend)                             *)
(***************************************************************************)
\* C30: the setpoint update never runs concurrently with itself: at most one
\* update is suspended in its service call at any time.
C30_OneUpdateAtATime == Cardinality(Sending) <= 1

(***************************************************************************)
(* Claims about the periodic reconciliation (SpecSetpoint)                 *)
(***************************************************************************)
\* The valves whose command of the last operation did not change their state.
FailedOpen == {z \in Commanded(act.batches, "turn_on") : ~valveOn[z]}
FailedClose == {z \in Commanded(act.batches, "turn_off") : valveOn[z]}

C32_CacheIsLastSend ==
    act.sent # <<>> /\ ~act.update.send =>
        last_main_target = act.sent[Len(act.sent)]

(***************************************************************************)
(* Claims about the main climate going off (SpecSetpoint)                  *)
(***************************************************************************)
\* C33: when the main climate changes to off, a close is issued for every
\* open valve of a zone that is no fallback zone and nothing for the others;
\* and the control pass that follows while the main climate is still off
\* issues no open for a valve of a zone that is no fallback zone.
C33_MainOffKeepsValvesClosed ==
    [][/\ act'.op = "climate_changed" /\ mainClimate'.state = "off" =>
              /\ Commanded(act'.batches, "turn_on") = {}
              /\ Commanded(act'.batches, "turn_off") =
                     {z \in Configured \ fallback_zone_names : valveOn[z]}
       /\ /\ act.op = "climate_changed"
          /\ mainClimate.state = "off"
          /\ mainClimate'.state = "off"
          /\ act'.pass
          => Commanded(act'.batches, "turn_on") \subseteq fallback_zone_names
      ]_vars

(***************************************************************************)
(* Claims about the Off mode (SpecGate)                                    *)
(***************************************************************************)
\* The control passes that wait for the lock.
QueuedPasses ==
    {id \in OpIds : ops[id].pc = "waiting" /\ ops[id].kind = "control_valves"}

\* C34: while the mode is Off, a control pass and a setpoint update decide
\* nothing and issue nothing; a sensor event starts no operation; and a
\* control pass that was queued in Heat or Cool and gets the lock in Off
\* returns without a command, leaving the suppression memory, the deferred
\* close and the valves as they are.
C34_OffIssuesNothing ==
    [][hvac_mode = "off" =>
          /\ ControlValves(hvac_mode, zoneTemp) = {NoValveAction}
          /\ UpdateMainClimate(hvac_mode, zoneTemp, mainClimate) = NoUpdate
          /\ zoneTemp' # zoneTemp =>
                 /\ ops' = ops
                 /\ update_lock' = update_lock
                 /\ valveOn' = valveOn
                 /\ last_main_target' = last_main_target
          /\ \A id \in QueuedPasses :
                 ops'[id] # ops[id] =>
                     /\ ops'[id] = NoOp
                     /\ act'.op = "control_valves"
                     /\ ~act'.pass
                     /\ act'.batches = <<>>
                     /\ act'.deferred = {}
                     /\ valveOn' = valveOn
                     /\ valve_no_reopen_until' = valve_no_reopen_until
                     /\ delayed_valve_close_task' = delayed_valve_close_task
      ]_vars

\* A control pass that had waited for the lock since Heat has got it in Off
\* and has returned.
C34_Witness ==
    /\ hvac_mode = "off"
    /\ act.op = "control_valves"
    /\ act.gate.exited
    /\ ~act.pass

(***************************************************************************)
(* Claims about the suppression memory (Spec)                              *)
(***************************************************************************)
\* C35: no expired reopen-suppression entry outlives a control pass that
\* evaluates its zone: after a pass, no zone with a reading has an entry whose
\* time has passed.
C35_ExpiredEntryRemoved ==
    act.pass =>
        \A z \in Configured :
            zoneTemp[z] # None => valve_no_reopen_until[z] # 0

(***************************************************************************)
(* Claims about the two aggregations (SpecAgg)                             *)
(***************************************************************************)
\* C36: on the same zones, mode and configuration, compute_main_target and
\* _calculate_desired_main_target return the same setpoint and the same
\* holding flag.
C36_SameSetpointAndRegime ==
    aggOut.done =>
        /\ aggOut.core.desired_main = aggOut.calc.desired_main
        /\ aggOut.core.is_holding_mode = aggOut.calc.is_holding_mode

(***************************************************************************)
(* Claims about the floor under obedient valves (SpecFloor)                *)
(***************************************************************************)
\* The valves that report on.
OpenValves == {z \in Configured : valveOn[z]}

C38_DeferredCloseIssued ==
    \A z \in Zones :
        (act.pass /\ z \in act.deferred)
            ~> (z \in Commanded(act.batches, "turn_off"))


\* C39: once the controller is Off, a deferred close does not close a valve:
\* in Off no pass schedules one, so a deferred close that runs in Off was
\* scheduled by a pass before the Off handling, and every valve open when it
\* runs is one the Off handling left open.
C39_NoStaleClose ==
    [][hvac_mode = "off" /\ act'.op = "delayed_valve_close"
           => \A z \in Configured : valveOn[z] => valveOn'[z]]_vars


(***************************************************************************)
(* Claims about a zone without a reading (Spec)                            *)
(***************************************************************************)
\* The configured zones whose temperature is unavailable in the pass.
Unread == {z \in Configured : zoneTemp[z] = None}

\* C40: a control pass never decides the valve of a zone without a reading
\* open; unless the floor promotion picks it, the valve is among those to turn
\* off and, if it was open, the pass sends or defers its close.
C40_UnreadZoneClosed ==
    act.pass =>
        \A z \in Unread :
            /\ z \notin act.decided_open
            /\ z \notin act.seen.promoted =>
                /\ z \in act.seen.valves_to_turn_off
                /\ z \in act.seen.open_before =>
                       z \in Commanded(act.batches, "turn_off")
                                 \cup act.deferred

\* A pass finds the valve of a zone without a reading open, does not promote
\* it and sends its close.
C40_Witness ==
    /\ act.pass
    /\ \E z \in Unread \cap act.seen.open_before :
           /\ z \notin act.seen.promoted
           /\ z \in Commanded(act.batches, "turn_off")

=============================================================================
